---- MODULE Spec2Model ----
(***************************************************************************)
(* Model of the chat-history viewer (server.js): the persisted history     *)
(* index (updateHistoryIndex / runAnalysis), the listing request, the      *)
(* detail-view normalizer and the Tier-1 summarizer.                       *)
(***************************************************************************)
EXTENDS Integers, Sequences, FiniteSets, TLC

\* ------------------------------------------------------------------------
\* Bounds
\* ------------------------------------------------------------------------
MaxChanges == 3  \* log-file creations, rewrites and deletions in one behaviour
MaxLines == 2    \* non-blank lines of the log file of a viewed conversation

\* ------------------------------------------------------------------------
\* JavaScript values
\* ------------------------------------------------------------------------
\* An optional field is <<>> when undefined (JSON.stringify omits the key)
\* and <<v>> when it carries v.
None == <<>>
Some(v) == <<v>>

\* JavaScript truthiness of an optional field whose value, when present, is
\* a non-empty string or an array
Truthy(o) == o # None

\* JavaScript truthiness of an optional boolean field
TruthyFlag(o) == o = Some(TRUE)

\* a || b
Or(a, b) == IF Truthy(a) THEN a ELSE b

\* Strings are sequences of one-character strings. BQ is the backquote
\* character.
BQ == "bq"

Includes(s, t) ==
    \E i \in 0..(Len(s) - Len(t)) : SubSeq(s, i + 1, i + Len(t)) = t

ReplaceAll(s, from, to) == [i \in 1..Len(s) |-> IF s[i] = from THEN to ELSE s[i]]

\* s.split(sep) for a one-character separator: the last part only
RECURSIVE LastPart(_, _)
LastPart(s, sep) ==
    IF s = <<>> THEN <<>>
    ELSE IF s[Len(s)] = sep THEN <<>>
    ELSE Append(LastPart(SubSeq(s, 1, Len(s) - 1), sep), s[Len(s)])

UnknownProject ==
    <<"U","n","k","n","o","w","n"," ","P","r","o","j","e","c","t">>

\* server.js extractProjectName
extractProjectName(encodedPath) ==
    LET decodedPath == ReplaceAll(SubSeq(encodedPath, 2, Len(encodedPath)), "-", "/")
        last == LastPart(decodedPath, "/")
    IN  IF last = <<>> THEN UnknownProject ELSE last

\* ------------------------------------------------------------------------
\* The file system under CLAUDE_BASE_PATH
\* ------------------------------------------------------------------------
\* Project directories (encoded paths). Two of them decode to the same
\* project name, and the name of the first is a substring of the second.
ProjectDirs ==
    { <<"-","a">>, <<"-","a","-","b">>, <<"-","c","-","b">> }

ChatIds == { <<"c">> }

Slots == ProjectDirs \X ChatIds

\* A log file, as far as the index is concerned: a fresh one-line log, the
\* same log with its last line rewritten later, and with a line appended.
LogFile(n, ts, mtime) ==
    [messageCount |-> n, lastMessageTimestamp |-> ts, modifiedTime |-> mtime]

LogFiles == { LogFile(1, 1, 1), LogFile(1, 2, 2), LogFile(2, 2, 2) }

Perms(S) ==
    { f \in [1..Cardinality(S) -> S] : \A i, j \in 1..Cardinality(S) : i # j => f[i] # f[j] }

VARIABLES
    disk,        \* Slots -> None or Some(log file): the .jsonl files on disk
    dirOrder,    \* the order in which fs.readdir lists the project directories
    changes,     \* number of changes made to the log files so far
    indexFile,   \* the contents of history-index.json
    last,        \* the most recent operation and the index file it started from
    response,    \* the response of the most recent request
    logLines,    \* the non-blank lines of the log file of one conversation
    view,        \* the response of GET /chat/:project/:id on that log file
    summaryResult, \* the summary that GET / computes from that log file
    page,        \* the listing page in the browser: cards and find state
    requests,    \* the GET / requests in progress: position and local variables
    exported     \* the response of GET /download/:project/:id on the log file

indexVars == <<disk, dirOrder, changes, indexFile, last, response>>

viewVars == <<logLines, view, summaryResult, page>>

otherVars == <<requests, exported>>

vars == <<disk, dirOrder, changes, indexFile, last, response, logLines, view,
          summaryResult, page, requests, exported>>

\* ------------------------------------------------------------------------
\* history-index.json
\* ------------------------------------------------------------------------
\* kind "absent": no file; "garbage": not parseable as JSON; "malformed":
\* parseable, but not an array of objects (an object, null, [null]);
\* "array": an array of entries.
AbsentFile == [kind |-> "absent", entries |-> <<>>]
GarbageFile == [kind |-> "garbage", entries |-> <<>>]
MalformedFile == [kind |-> "malformed", entries |-> <<>>]
ArrayFile(es) == [kind |-> "array", entries |-> es]

\* Content-derived texts are identified by the log file they were computed
\* from and the state of that file.
Text(what, slot, file) ==
    [what |-> what, dir |-> slot[1], id |-> slot[2],
     messageCount |-> file.messageCount, ts |-> file.lastMessageTimestamp]

\* `${project}:${id}`
Key(project, id) == project \o <<":">> \o id

\* ------------------------------------------------------------------------
\* GET / : the scan of the project directories (server.js 310-444)
\* ------------------------------------------------------------------------
\* The first user message of the log files of a directory
firstUserMessage(dir) ==
    IF dir = <<"-","a">> THEN <<"H","i","!"," ","o","k">>
    ELSE IF dir = <<"-","a","-","b">> THEN <<" ","g","o","\n","x">>
    ELSE <<>>

NoPreview == <<"N","o"," ","p","r","e","v","i","e","w">>

\* One element of projectChats (server.js 419-432)
Chat(d, dir, id) ==
    LET file == d[<<dir, id>>][1] IN
    [id |-> id, projectDir |-> dir, projectName |-> extractProjectName(dir),
     modifiedTime |-> file.modifiedTime,
     firstMessage |-> IF firstUserMessage(dir) # <<>>
                      THEN firstUserMessage(dir) ELSE NoPreview,
     summary |-> Text("tier1", <<dir, id>>, file),
     messageCount |-> file.messageCount,
     lastMessageTimestamp |-> file.lastMessageTimestamp]

\* Stable sort of a sequence, descending by key(_) (Array.prototype.sort
\* with the comparator (a, b) => key(b) - key(a))
Range(s) == { s[i] : i \in 1..Len(s) }

\* The sequence left in the order it was built in
SortDescSkipped(s, key) == s

RECURSIVE SortDesc(_, _)
SortDesc(s, key) ==
    IF s = <<>> THEN <<>>
    ELSE LET rest == SortDesc(SubSeq(s, 1, Len(s) - 1), key)
             x == s[Len(s)]
             \* x goes after every element whose key is >= its own
             pos == Cardinality({i \in 1..Len(rest) : key[rest[i]] >= key[x]})
         IN  SubSeq(rest, 1, pos) \o <<x>> \o SubSeq(rest, pos + 1, Len(rest))

\* (a, b) => b.modifiedTime - a.modifiedTime
ChatMtime(chats) == [c \in Range(chats) |-> c.modifiedTime]

\* projectChats of one directory, in readdir order of its files
ProjectChats(d, dir, fileOrder) ==
    LET present == SelectSeq(fileOrder, LAMBDA id : d[<<dir, id>>] # None)
    IN  [i \in 1..Len(present) |-> Chat(d, dir, present[i])]

\* chatsByProject[projectName] = projectChats: a later directory with the
\* same decoded name replaces the chats of the earlier one, and the key
\* keeps its insertion position.
PutProject(cbp, name, chats) ==
    IF \E i \in 1..Len(cbp) : cbp[i].projectName = name
    THEN [i \in 1..Len(cbp) |->
            IF cbp[i].projectName = name
            THEN [projectName |-> name, chats |-> chats] ELSE cbp[i]]
    ELSE Append(cbp, [projectName |-> name, chats |-> chats])

RECURSIVE ScanDirs(_, _, _)
ScanDirs(d, dirs, fileOrder) ==
    IF dirs = <<>> THEN <<>>
    ELSE LET before == ScanDirs(d, SubSeq(dirs, 1, Len(dirs) - 1), fileOrder)
             dir == dirs[Len(dirs)]
             projectChats == ProjectChats(d, dir, fileOrder)
         IN  IF Len(projectChats) > 0
             THEN PutProject(before, extractProjectName(dir),
                             SortDesc(projectChats, ChatMtime(projectChats)))
             ELSE before

\* chatsByProject, as a sequence of [projectName, chats] in key order
Scan(d, dirs) ==
    ScanDirs(d, dirs, CHOOSE f \in Perms(ChatIds) : TRUE)

\* Calculate stats (server.js 454-459): the sums over the values of
\* chatsByProject
RECURSIVE totalConversations(_)
totalConversations(cbp) ==
    IF cbp = <<>> THEN 0
    ELSE totalConversations(SubSeq(cbp, 1, Len(cbp) - 1)) + Len(cbp[Len(cbp)].chats)

RECURSIVE MessageSum(_)
MessageSum(projectChats) ==
    IF projectChats = <<>> THEN 0
    ELSE MessageSum(SubSeq(projectChats, 1, Len(projectChats) - 1))
            + projectChats[Len(projectChats)].messageCount

RECURSIVE totalMessages(_)
totalMessages(cbp) ==
    IF cbp = <<>> THEN 0
    ELSE totalMessages(SubSeq(cbp, 1, Len(cbp) - 1)) + MessageSum(cbp[Len(cbp)].chats)

\* ------------------------------------------------------------------------
\* updateHistoryIndex (server.js 132-212)
\* ------------------------------------------------------------------------
IsSpace(c) == c \in {" ", "\n", "\t"}

RECURSIVE TrimStart(_)
TrimStart(s) ==
    IF s # <<>> /\ IsSpace(s[1]) THEN TrimStart(Tail(s)) ELSE s

RECURSIVE TrimEnd(_)
TrimEnd(s) ==
    IF s # <<>> /\ IsSpace(s[Len(s)]) THEN TrimEnd(SubSeq(s, 1, Len(s) - 1)) ELSE s

Trim(s) == TrimEnd(TrimStart(s))

\* server.js 165-171: the match of /^[^.!?]*[.!?]/, else the first line
FirstSentence(firstMessage) ==
    LET ends == {i \in 1..Len(firstMessage) : firstMessage[i] \in {".", "!", "?"}}
        nls == {i \in 1..Len(firstMessage) : firstMessage[i] = "\n"}
        Min(S) == CHOOSE m \in S : \A n \in S : m <= n
    IN  IF ends # {} THEN Trim(SubSeq(firstMessage, 1, Min(ends)))
        ELSE IF nls # {} THEN Trim(SubSeq(firstMessage, 1, Min(nls) - 1))
        ELSE Trim(firstMessage)

\* existingMap.get(key): Map.set keeps the last entry of a key
ExistingThread(existingIndex, key) ==
    LET hits == {i \in 1..Len(existingIndex) :
                    Key(existingIndex[i].project, existingIndex[i].id) = key}
    IN  IF hits = {} THEN None
        ELSE Some(existingIndex[CHOOSE m \in hits : \A n \in hits : m >= n])

\* existingThread?.field
Field(existingThread, f) ==
    IF existingThread = None THEN None ELSE existingThread[1][f]

\* The merged entry without the carry-forward of paragraphSummary
ThreadInfoFieldsNoCarry(existingThread, projectName, chat) ==
    [id |-> chat.id,
     project |-> projectName,
     date |-> chat.modifiedTime,
     firstSentence |-> FirstSentence(chat.firstMessage),
     oneLineSummary |-> Or(Field(existingThread, "oneLineSummary"),
                           Field(existingThread, "oneLine")),
     bulletSummary |-> Or(Field(existingThread, "bulletSummary"),
                          Or(Field(existingThread, "enhancedBullets"),
                             Some(chat.summary))),
     paragraphSummary |-> Field(existingThread, "paragraph"),
     messageCount |-> chat.messageCount,
     lastMessageTimestamp |-> chat.lastMessageTimestamp,
     needsAnalysis |-> None,
     lastAnalyzed |-> None,
     oneLine |-> None, enhancedBullets |-> None, paragraph |-> None]

\* server.js 173-183: the merged entry of one observed chat
ThreadInfoFields(existingThread, projectName, chat) ==
    [id |-> chat.id,
     project |-> projectName,
     date |-> chat.modifiedTime,
     firstSentence |-> FirstSentence(chat.firstMessage),
     oneLineSummary |-> Or(Field(existingThread, "oneLineSummary"),
                           Field(existingThread, "oneLine")),
     bulletSummary |-> Or(Field(existingThread, "bulletSummary"),
                          Or(Field(existingThread, "enhancedBullets"),
                             Some(chat.summary))),
     paragraphSummary |-> Or(Field(existingThread, "paragraphSummary"),
                             Field(existingThread, "paragraph")),
     messageCount |-> chat.messageCount,
     lastMessageTimestamp |-> chat.lastMessageTimestamp,
     needsAnalysis |-> None,
     lastAnalyzed |-> None,
     oneLine |-> None, enhancedBullets |-> None, paragraph |-> None]

\* The change test without the test for a chat that has no entry
IsChangedNoNew(existingThread, chat) ==
    /\ existingThread # None
    /\ \/ existingThread[1].messageCount # chat.messageCount
       \/ existingThread[1].lastMessageTimestamp # chat.lastMessageTimestamp
       \/ ~Truthy(existingThread[1].oneLineSummary)
       \/ ~Truthy(existingThread[1].paragraphSummary)

\* The change test with the negation of the oneLineSummary test dropped
IsChangedNoNegation(existingThread, chat) ==
    \/ existingThread = None
    \/ existingThread[1].messageCount # chat.messageCount
    \/ existingThread[1].lastMessageTimestamp # chat.lastMessageTimestamp
    \/ Truthy(existingThread[1].oneLineSummary)
    \/ ~Truthy(existingThread[1].paragraphSummary)

\* server.js 186-190: is the chat new or changed
IsChanged(existingThread, chat) ==
    \/ existingThread = None
    \/ existingThread[1].messageCount # chat.messageCount
    \/ existingThread[1].lastMessageTimestamp # chat.lastMessageTimestamp
    \/ ~Truthy(existingThread[1].oneLineSummary)
    \/ ~Truthy(existingThread[1].paragraphSummary)

\* server.js 154-198: the body of chats.forEach
ThreadInfo(existingIndex, projectName, chat) ==
    LET existingThread == ExistingThread(existingIndex, Key(projectName, chat.id))
        threadInfo == ThreadInfoFields(existingThread, projectName, chat)
    IN  IF IsChanged(existingThread, chat)
        THEN [threadInfo EXCEPT !.needsAnalysis = Some(TRUE)]
        ELSE threadInfo

\* server.js 153-199: newIndex before the sort
RECURSIVE BuildIndex(_, _)
BuildIndex(existingIndex, cbp) ==
    IF cbp = <<>> THEN <<>>
    ELSE LET p == cbp[Len(cbp)] IN
         BuildIndex(existingIndex, SubSeq(cbp, 1, Len(cbp) - 1))
           \o [i \in 1..Len(p.chats) |->
                 ThreadInfo(existingIndex, p.projectName, p.chats[i])]

EntryDate(index) == [e \in Range(index) |-> e.date]

\* The outcome of updateHistoryIndex(chatsByProject) on an index file
updateHistoryIndex(file, cbp) ==
    IF file.kind = "malformed"
    THEN \* existingIndex.forEach / thread.project throws: caught at 209
         [file |-> file, wrote |-> FALSE, threw |-> TRUE,
          hasChanges |-> FALSE, newIndex |-> <<>>]
    ELSE LET existingIndex == IF file.kind = "array" THEN file.entries ELSE <<>>
             unsorted == BuildIndex(existingIndex, cbp)
             newIndex == SortDesc(unsorted, EntryDate(unsorted))
             hasChanges == \E i \in 1..Len(newIndex) :
                              newIndex[i].needsAnalysis = Some(TRUE)
             write == hasChanges \/ Len(existingIndex) # Len(newIndex)
         IN  [file |-> IF write THEN ArrayFile(newIndex) ELSE file,
              wrote |-> write, threw |-> FALSE,
              hasChanges |-> hasChanges, newIndex |-> newIndex]

\* ------------------------------------------------------------------------
\* runAnalysis (server.js 215-304)
\* ------------------------------------------------------------------------
\* server.js 230-232
NeedsAnalysis(thread) ==
    \/ TruthyFlag(thread.needsAnalysis)
    \/ ~Truthy(thread.oneLineSummary)
    \/ ~Truthy(thread.paragraphSummary)

\* server.js 248-256: the first directory whose name includes the project
FindProjectDir(dirs, project) ==
    LET hits == {i \in 1..Len(dirs) :
                    Includes(dirs[i], ReplaceAll(project, "/", "-"))}
    IN  IF hits = {} THEN None
        ELSE Some(dirs[CHOOSE m \in hits : \A n \in hits : m <= n])

\* server.js 246-289: one iteration of the loop over needsAnalysis
AnalyzeOne(historyIndex, chat, d, dirs) ==
    LET projectDir == FindProjectDir(dirs, chat.project) IN
    IF projectDir = None THEN historyIndex                       \* continue
    ELSE LET slot == <<projectDir[1], chat.id>> IN
    IF slot \notin Slots \/ d[slot] = None THEN historyIndex     \* readFile throws
    ELSE LET file == d[slot][1]
             hits == {i \in 1..Len(historyIndex) : historyIndex[i].id = chat.id}
         IN  IF hits = {} THEN historyIndex
             ELSE LET threadIndex == CHOOSE m \in hits : \A n \in hits : m <= n IN
                  [historyIndex EXCEPT ![threadIndex] =
                      [@ EXCEPT !.oneLineSummary = Some(Text("oneLine", slot, file)),
                                !.paragraphSummary = Some(Text("paragraph", slot, file)),
                                !.bulletSummary = Some(Text("bullets", slot, file)),
                                !.lastAnalyzed = Some("now"),
                                !.needsAnalysis = Some(FALSE)]]

RECURSIVE AnalyzeAll(_, _, _, _)
AnalyzeAll(historyIndex, needs, d, dirs) ==
    IF needs = <<>> THEN historyIndex
    ELSE AnalyzeAll(AnalyzeOne(historyIndex, Head(needs), d, dirs), Tail(needs), d, dirs)

\* server.js 261, 813: readFile of the log file of a located chat throws
AnalysisThrows(chat, d, dirs) ==
    LET projectDir == FindProjectDir(dirs, chat.project) IN
    /\ projectDir # None
    /\ \/ <<projectDir[1], chat.id>> \notin Slots
       \/ d[<<projectDir[1], chat.id>>] = None

\* server.js 258: no directory name includes the project name
NotLocated(chat, dirs) == FindProjectDir(dirs, chat.project) = None

\* runAnalysis without the try of the loop body (246, 287-289): an
\* exception of one chat reaches the catch at 300, before the writeFile
runAnalysisNoInnerCatch(file, d, dirs) ==
    IF file.kind # "array"
    THEN [file |-> file, wrote |-> FALSE, threw |-> TRUE]
    ELSE LET needsAnalysis == SelectSeq(file.entries, NeedsAnalysis) IN
         IF needsAnalysis = <<>>
         THEN [file |-> file, wrote |-> FALSE, threw |-> FALSE]
         ELSE IF \E i \in 1..Len(needsAnalysis) : AnalysisThrows(needsAnalysis[i], d, dirs)
         THEN [file |-> file, wrote |-> FALSE, threw |-> TRUE]
         ELSE [file |-> ArrayFile(AnalyzeAll(file.entries, needsAnalysis, d, dirs)),
               wrote |-> TRUE, threw |-> FALSE]

\* The outcome of runAnalysis() on an index file
runAnalysis(file, d, dirs) ==
    IF file.kind # "array"
    THEN \* readFile, JSON.parse or historyIndex.filter throws: caught at 300
         [file |-> file, wrote |-> FALSE, threw |-> TRUE]
    ELSE LET needsAnalysis == SelectSeq(file.entries, NeedsAnalysis) IN
         IF needsAnalysis = <<>>
         THEN [file |-> file, wrote |-> FALSE, threw |-> FALSE]
         ELSE [file |-> ArrayFile(AnalyzeAll(file.entries, needsAnalysis, d, dirs)),
               wrote |-> TRUE, threw |-> FALSE]

\* ------------------------------------------------------------------------
\* GET / (server.js 307-512)
\* ------------------------------------------------------------------------
\* The files that fs.stat / fs.readFile are called on
ScannedSlots(d) == {slot \in Slots : d[slot] # None}

\* server.js 467-495: chats of the rendered listing
Listing(file, cbp) ==
    [i \in 1..Len(cbp) |->
        [projectName |-> cbp[i].projectName,
         chats |-> [j \in 1..Len(cbp[i].chats) |->
            LET chat == cbp[i].chats[j]
                enhanced == IF file.kind = "array"
                            THEN ExistingThread(file.entries, Key(cbp[i].projectName, chat.id))
                            ELSE None
            IN  [id |-> chat.id, projectDir |-> chat.projectDir,
                 enhancedSummary |->
                    IF enhanced # None /\ Truthy(enhanced[1].paragraphSummary)
                    THEN Some(enhanced[1].paragraphSummary[1]) ELSE None]]]]

NoResponse == [status |-> 0, chats |-> <<>>]

NoView ==
    [status |-> 0, messages |-> <<>>, originalMessages |-> <<>>, searchTerm |-> <<>>,
     searchCount |-> 0]

\* No listing page loaded
NoPage == [loaded |-> FALSE]

\* No summary computed yet
NoSummary == [kind |-> "none", bullets |-> <<>>, count |-> 0, anchors |-> <<>>]

\* No download requested yet
NoExport == [status |-> 0, markdown |-> <<>>, searchTerm |-> <<>>]

\* The two clients whose GET / requests may overlap
Requests == {1, 2}

\* A request that has not started. cbp is its chatsByProject, read the
\* index document it read last, written the document its last writeFile
\* call carried (None when it did not call writeFile) and overwrote the
\* document that call replaced.
NoRequest ==
    [pc |-> "idle", cbp |-> <<>>, read |-> AbsentFile, written |-> None,
     overwrote |-> None]

NoRequests == [r \in Requests |-> NoRequest]

\* ------------------------------------------------------------------------
\* State machine of the index store
\* ------------------------------------------------------------------------
NoOp(op) == [op |-> op, repeat |-> FALSE, failed |-> {}, before |-> AbsentFile]

\* A legacy-format document: one analysed entry under the old field names
LegacyEntry ==
    LET slot == << <<"-","a">>, <<"c">> >>
        file == LogFile(1, 1, 1)
    IN  [id |-> slot[2], project |-> extractProjectName(slot[1]), date |-> 1,
         firstSentence |-> FirstSentence(firstUserMessage(slot[1])),
         oneLineSummary |-> None, bulletSummary |-> None, paragraphSummary |-> None,
         messageCount |-> 1, lastMessageTimestamp |-> 1,
         needsAnalysis |-> None, lastAnalyzed |-> None,
         oneLine |-> Some(Text("oneLine", slot, file)),
         enhancedBullets |-> Some(Text("bullets", slot, file)),
         paragraph |-> Some(Text("paragraph", slot, file))]

InitialIndexFiles ==
    {AbsentFile, GarbageFile, MalformedFile, ArrayFile(<<LegacyEntry>>)}

\* readdir orders of the project directories
DirOrders ==
    { << <<"-","a">>, <<"-","a","-","b">>, <<"-","c","-","b">> >>,
      << <<"-","c","-","b">>, <<"-","a","-","b">>, <<"-","a">> >> }

Init ==
    /\ disk = [slot \in Slots |-> None]
    /\ dirOrder \in DirOrders
    /\ changes = 0
    /\ indexFile \in InitialIndexFiles
    /\ last = NoOp("init")
    /\ response = NoResponse
    /\ logLines = <<>>
    /\ view = NoView
    /\ summaryResult = NoSummary
    /\ page = NoPage
    /\ requests = NoRequests
    /\ exported = NoExport

\* A log file is created, appended to or rewritten
WriteLog(slot, file) ==
    /\ changes < MaxChanges
    /\ disk[slot] # Some(file)
    /\ disk' = [disk EXCEPT ![slot] = Some(file)]
    /\ changes' = changes + 1
    /\ last' = NoOp("env")
    /\ response' = NoResponse
    /\ UNCHANGED <<dirOrder, indexFile>>
    /\ UNCHANGED viewVars
    /\ UNCHANGED otherVars

\* A log file is deleted
DeleteLog(slot) ==
    /\ changes < MaxChanges
    /\ disk[slot] # None
    /\ disk' = [disk EXCEPT ![slot] = None]
    /\ changes' = changes + 1
    /\ last' = NoOp("env")
    /\ response' = NoResponse
    /\ UNCHANGED <<dirOrder, indexFile>>
    /\ UNCHANGED viewVars
    /\ UNCHANGED otherVars

\* updateHistoryIndex(chatsByProject) on the chats of a scan
UpdateHistoryIndex ==
    /\ indexFile' = updateHistoryIndex(indexFile, Scan(disk, dirOrder)).file
    /\ last' = [op |-> "merge", repeat |-> last.op = "merge", failed |-> {},
                before |-> indexFile]
    /\ response' = NoResponse
    /\ UNCHANGED <<disk, dirOrder, changes>>
    /\ UNCHANGED viewVars
    /\ UNCHANGED otherVars

\* GET /analyze-chats: runAnalysis()
RunAnalysis ==
    /\ indexFile' = runAnalysis(indexFile, disk, dirOrder).file
    /\ last' = [NoOp("analysis") EXCEPT !.before = indexFile]
    /\ response' = NoResponse
    /\ UNCHANGED <<disk, dirOrder, changes>>
    /\ UNCHANGED viewVars
    /\ UNCHANGED otherVars

\* GET /: scan, merge, analysis and rendering; the reads of the files in
\* `failed` fail
ListingRequest(failed) ==
    IF failed # {}
    THEN \* Promise.all rejects: caught at 508
         /\ response' = [status |-> 500, chats |-> <<>>]
         /\ last' = [NoOp("listing") EXCEPT !.failed = failed, !.before = indexFile]
         /\ UNCHANGED <<disk, dirOrder, changes, indexFile>>
         /\ UNCHANGED viewVars
         /\ UNCHANGED otherVars
    /\ UNCHANGED otherVars
    ELSE LET cbp == Scan(disk, dirOrder)
             merged == updateHistoryIndex(indexFile, cbp)
             analysed == runAnalysis(merged.file, disk, dirOrder)
         IN  /\ indexFile' = analysed.file
             /\ response' = [status |-> 200, chats |-> Listing(analysed.file, cbp)]
             /\ last' = [NoOp("listing") EXCEPT !.before = indexFile]
             /\ UNCHANGED <<disk, dirOrder, changes>>
    /\ UNCHANGED viewVars
    /\ UNCHANGED otherVars

Next ==
    \/ \E slot \in Slots, file \in LogFiles : WriteLog(slot, file)
    \/ \E slot \in Slots : DeleteLog(slot)
    \/ UpdateHistoryIndex
    \/ RunAnalysis
    \/ \E failed \in {{}} \cup {{slot} : slot \in ScannedSlots(disk)} :
          ListingRequest(failed)

Spec == Init /\ [][Next]_vars

\* ------------------------------------------------------------------------
\* Properties of the index store
\* ------------------------------------------------------------------------
\* The chats of the most recent scan: no log file has changed since an
\* operation other than "env"
ObservedChats ==
    LET cbp == Scan(disk, dirOrder) IN
    UNION { { [projectName |-> cbp[i].projectName, chat |-> cbp[i].chats[j]] :
                j \in 1..Len(cbp[i].chats) } : i \in 1..Len(cbp) }

ObservedKeys == { Key(o.projectName, o.chat.id) : o \in ObservedChats }

EntryKey(e) == Key(e.project, e.id)

Entries(file) == Range(file.entries)

\* The merge that the most recent updateHistoryIndex performed
LastMerge == updateHistoryIndex(last.before, Scan(disk, dirOrder))

MergedFields ==
    {"oneLineSummary", "bulletSummary", "paragraphSummary", "lastAnalyzed",
     "needsAnalysis"}

\* C1: a second updateHistoryIndex on the same observed conversations, with
\* no writer in between, detects no change, writes nothing and leaves the
\* document as the first run left it.
C1_MergeIdempotent ==
    (last.op = "merge" /\ last.repeat) =>
        /\ ~LastMerge.hasChanges
        /\ ~LastMerge.wrote
        /\ indexFile = last.before

\* C2: after updateHistoryIndex, every field that the persisted entry of an
\* observed conversation carried is still present in the document.
C2_FieldsMergedForward ==
    last.op = "merge" =>
        \A e \in Entries(last.before) :
            EntryKey(e) \in ObservedKeys =>
                \E n \in Entries(indexFile) :
                    /\ EntryKey(n) = EntryKey(e)
                    /\ \A f \in MergedFields : e[f] # None => n[f] # None

\* C3: a non-empty persisted paragraphSummary of an observed conversation is
\* the paragraphSummary of its entry after updateHistoryIndex.
C3_ParagraphKept ==
    last.op = "merge" =>
        \A e \in Entries(last.before) :
            (Truthy(e.paragraphSummary) /\ EntryKey(e) \in ObservedKeys) =>
                /\ \E n \in Entries(indexFile) : EntryKey(n) = EntryKey(e)
                /\ \A n \in Entries(indexFile) :
                      EntryKey(n) = EntryKey(e) => n.paragraphSummary = e.paragraphSummary

\* C3 witness: a merge that wrote the document and carried a persisted
\* paragraphSummary of a changed conversation forward
C3_Witness ==
    /\ last.op = "merge"
    /\ LastMerge.wrote
    /\ \E e \in Entries(last.before), n \in Entries(indexFile) :
          /\ EntryKey(n) = EntryKey(e)
          /\ Truthy(e.paragraphSummary)
          /\ n.paragraphSummary = e.paragraphSummary
          /\ n.messageCount # e.messageCount

\* The observed chat of an entry is unchanged with respect to the analysed
\* entry the most recent merge started from
UnchangedAtMerge(key) ==
    \E e \in Entries(last.before), o \in ObservedChats :
        /\ EntryKey(e) = key
        /\ Truthy(e.oneLineSummary)
        /\ Truthy(e.paragraphSummary)
        /\ Key(o.projectName, o.chat.id) = key
        /\ e.messageCount = o.chat.messageCount
        /\ e.lastMessageTimestamp = o.chat.lastMessageTimestamp

\* C4: in the persisted index, an entry with oneLineSummary and
\* paragraphSummary whose messageCount and lastMessageTimestamp were
\* unchanged at the most recent merge does not have needsAnalysis = true.
C4_NoStaleFlag ==
    last.op = "merge" =>
        \A n \in Entries(indexFile) :
            (/\ Truthy(n.oneLineSummary)
             /\ Truthy(n.paragraphSummary)
             /\ UnchangedAtMerge(EntryKey(n))) => ~TruthyFlag(n.needsAnalysis)

\* C5: an entry whose messageCount is the same in two consecutive scans and
\* whose persisted oneLineSummary is present is merged with needsAnalysis
\* not set.
C5_SameCountNotFlagged ==
    last.op = "merge" =>
        \A e \in Entries(last.before), o \in ObservedChats :
            (/\ EntryKey(e) = Key(o.projectName, o.chat.id)
             /\ e.messageCount = o.chat.messageCount
             /\ Truthy(e.oneLineSummary)) =>
                \A n \in Range(LastMerge.newIndex) :
                    EntryKey(n) = EntryKey(e) => ~TruthyFlag(n.needsAnalysis)

\* C5 (amended): an entry whose messageCount and lastMessageTimestamp are the
\* same in two consecutive scans and whose persisted oneLineSummary and
\* paragraphSummary are present is merged with needsAnalysis not set.
C5_UnchangedNotFlagged ==
    last.op = "merge" =>
        \A e \in Entries(last.before), o \in ObservedChats :
            (/\ EntryKey(e) = Key(o.projectName, o.chat.id)
             /\ e.messageCount = o.chat.messageCount
             /\ e.lastMessageTimestamp = o.chat.lastMessageTimestamp
             /\ Truthy(e.oneLineSummary)
             /\ Truthy(e.paragraphSummary)) =>
                /\ \E n \in Range(LastMerge.newIndex) : EntryKey(n) = EntryKey(e)
                /\ \A n \in Range(LastMerge.newIndex) :
                      EntryKey(n) = EntryKey(e) => ~TruthyFlag(n.needsAnalysis)

\* C5 witness: a merge that wrote the document because of another
\* conversation, and left an unchanged analysed entry unflagged
C5_Witness ==
    /\ last.op = "merge"
    /\ LastMerge.wrote
    /\ \E e \in Entries(last.before), n \in Entries(indexFile) :
          /\ EntryKey(n) = EntryKey(e)
          /\ UnchangedAtMerge(EntryKey(e))
          /\ Truthy(e.oneLineSummary)
          /\ Truthy(e.paragraphSummary)
          /\ ~TruthyFlag(n.needsAnalysis)

\* The log file of an entry exists under some directory of its project
SourceExists(e) ==
    \E slot \in ScannedSlots(disk) :
        extractProjectName(slot[1]) = e.project /\ slot[2] = e.id

\* C6: no updateHistoryIndex or runAnalysis removes the entry of a
\* conversation whose log file no longer exists.
C6_StaleEntryKept ==
    last.op \in {"merge", "analysis", "listing"} =>
        \A e \in Entries(last.before) :
            ~SourceExists(e) => \E n \in Entries(indexFile) : EntryKey(n) = EntryKey(e)

\* C7: on an absent or corrupt index file, updateHistoryIndex writes a
\* rebuilt document with one entry per observed conversation.
C7_CorruptIndexRebuilt ==
    (/\ last.op = "merge"
     /\ last.before.kind \in {"absent", "garbage", "malformed"}
     /\ ObservedChats # {}) =>
        /\ indexFile.kind = "array"
        /\ Len(indexFile.entries) = Cardinality(ObservedChats)
        /\ \A k \in ObservedKeys : \E n \in Entries(indexFile) : EntryKey(n) = k

\* The slots of the chats of a listing response
ListedSlots ==
    UNION { { <<response.chats[i].chats[j].projectDir, response.chats[i].chats[j].id>> :
                j \in 1..Len(response.chats[i].chats) } : i \in 1..Len(response.chats) }

\* The slots that a scan of the readable files alone lists
ReadableListedSlots ==
    LET readable == [slot \in Slots |-> IF slot \in last.failed THEN None ELSE disk[slot]]
        cbp == Scan(readable, dirOrder)
    IN  UNION { { <<cbp[i].chats[j].projectDir, cbp[i].chats[j].id>> :
                    j \in 1..Len(cbp[i].chats) } : i \in 1..Len(cbp) }

\* C8: a listing request in which the read of one log file fails still
\* returns, and merges into the index, every other conversation.
C8_SiblingsSurviveFailure ==
    (last.op = "listing" /\ last.failed # {} /\ ReadableListedSlots # {}) =>
        /\ response.status = 200
        /\ \A slot \in ReadableListedSlots :
              /\ slot \in ListedSlots
              /\ indexFile.kind = "array"
              /\ \E n \in Entries(indexFile) :
                    EntryKey(n) = Key(extractProjectName(slot[1]), slot[2])

\* ------------------------------------------------------------------------
\* Replacement of a conversation by another one
\* ------------------------------------------------------------------------
KeysOf(entries) == {EntryKey(e) : e \in Range(entries)}

\* The most recent operation is a merge of as many chats as the document
\* had entries, and the chats do not have the keys of the entries
ReplacedAtMerge ==
    /\ last.op = "merge"
    /\ last.before.kind = "array"
    /\ Len(LastMerge.newIndex) = Len(last.before.entries)
    /\ KeysOf(LastMerge.newIndex) # KeysOf(last.before.entries)

AnalysisWrote ==
    /\ last.op = "analysis"
    /\ runAnalysis(last.before, disk, dirOrder).wrote

\* The directory that runAnalysis locates for every entry of the document
\* it read is a directory of the project of the entry
LocatedOwnProject ==
    \A e \in Entries(last.before) :
        LET projectDir == FindProjectDir(dirOrder, e.project) IN
        projectDir # None => extractProjectName(projectDir[1]) = e.project

\* C24: every entry that runAnalysis updates is the entry with the project
\* and id of the chat that was analysed: when entries share an id under
\* different projects, each one carries the analysis of a conversation of
\* its own project, and none that was selected, and whose log file was
\* read, is left unanalysed.
C24_OwnEntryUpdated ==
    (AnalysisWrote /\ LocatedOwnProject) =>
        \A i \in 1..Len(indexFile.entries) :
            LET e == indexFile.entries[i]
                b == last.before.entries[i]
                projectDir == FindProjectDir(dirOrder, b.project)
            IN  /\ (e.lastAnalyzed = Some("now") /\ Truthy(e.paragraphSummary)) =>
                      /\ extractProjectName(e.paragraphSummary[1].dir) = e.project
                      /\ e.paragraphSummary[1].id = e.id
                /\ (/\ NeedsAnalysis(b)
                    /\ projectDir # None
                    /\ ~AnalysisThrows(b, disk, dirOrder)) =>
                      /\ e.needsAnalysis = Some(FALSE)
                      /\ e.lastAnalyzed = Some("now")

\* ------------------------------------------------------------------------
\* The analysis at the end of a listing request
\* ------------------------------------------------------------------------
\* A listing request has completed on an index that the merge can read, and
\* no two observed conversations have the same id
ListingCompleted ==
    /\ last.op = "listing"
    /\ last.failed = {}
    /\ response.status = 200
    /\ last.before.kind # "malformed"
    /\ \A o, p \in ObservedChats : o.chat.id = p.chat.id => o = p

\* C25: after a listing request, merge followed by runAnalysis, the entry
\* of every observed conversation carries oneLineSummary and
\* paragraphSummary, computed from the log file of the directory that the
\* conversation was scanned from, and needsAnalysis = false.
C25_ObservedAnalysed ==
    ListingCompleted =>
        \A o \in ObservedChats :
            /\ indexFile.kind = "array"
            /\ \E e \in Entries(indexFile) :
                  /\ EntryKey(e) = Key(o.projectName, o.chat.id)
                  /\ Truthy(e.oneLineSummary)
                  /\ Truthy(e.paragraphSummary)
                  /\ e.paragraphSummary[1].dir = o.chat.projectDir
                  /\ e.needsAnalysis = Some(FALSE)

\* ------------------------------------------------------------------------
\* The flag of a changed conversation
\* ------------------------------------------------------------------------
\* The entry carries the summaries of a content that is no longer the
\* content it describes
StaleSummaries(e) ==
    /\ Truthy(e.oneLineSummary)
    /\ Truthy(e.paragraphSummary)
    /\ \/ e.paragraphSummary[1].messageCount # e.messageCount
       \/ e.paragraphSummary[1].ts # e.lastMessageTimestamp

\* C27: an entry persisted with needsAnalysis = true after its messageCount
\* or lastMessageTimestamp changed stays selected for analysis in the
\* document that a later merge writes, as long as it carries the summaries
\* of the old content.
C27_FlagSurvivesMerge ==
    (last.op = "merge" /\ last.before.kind = "array" /\ indexFile.kind = "array") =>
        \A e \in Entries(last.before) :
            (e.needsAnalysis = Some(TRUE) /\ StaleSummaries(e)) =>
                \A n \in Entries(indexFile) :
                    (/\ EntryKey(n) = EntryKey(e)
                     /\ n.oneLineSummary = e.oneLineSummary
                     /\ n.paragraphSummary = e.paragraphSummary
                     /\ n.messageCount = e.messageCount
                     /\ n.lastMessageTimestamp = e.lastMessageTimestamp)
                        => NeedsAnalysis(n)

\* ------------------------------------------------------------------------
\* Every log file is listed, indexed and counted
\* ------------------------------------------------------------------------
\* The positions of the listing that show the file of a slot
ListedAt(slot) ==
    { p \in { <<i, j>> : i \in 1..Len(response.chats), j \in 1..Cardinality(Slots) } :
        /\ p[2] <= Len(response.chats[p[1]].chats)
        /\ response.chats[p[1]].chats[p[2]].projectDir = slot[1]
        /\ response.chats[p[1]].chats[p[2]].id = slot[2] }

\* The positions of the persisted index that hold the key of a slot
IndexedAt(slot) ==
    { i \in 1..Len(indexFile.entries) :
        EntryKey(indexFile.entries[i]) = Key(extractProjectName(slot[1]), slot[2]) }

RECURSIVE DiskMessages(_)
DiskMessages(slots) ==
    IF slots = {} THEN 0
    ELSE LET slot == CHOOSE s \in slots : TRUE
         IN  disk[slot][1].messageCount + DiskMessages(slots \ {slot})

\* C28: after GET /, every .jsonl file of every project directory is shown
\* by exactly one conversation of the listing, has exactly one entry of its
\* own in the merged index, and is counted once in totalConversations and
\* totalMessages, also when two directories decode to the same project
\* name.
C28_EveryFileOnce ==
    (last.op = "listing" /\ response.status = 200 /\ indexFile.kind = "array") =>
        /\ \A slot \in ScannedSlots(disk) : Cardinality(ListedAt(slot)) = 1
        /\ \A slot \in ScannedSlots(disk) : Cardinality(IndexedAt(slot)) = 1
        /\ \A s, t \in ScannedSlots(disk) : s # t => IndexedAt(s) \cap IndexedAt(t) = {}
        /\ totalConversations(Scan(disk, dirOrder)) = Cardinality(ScannedSlots(disk))
        /\ totalMessages(Scan(disk, dirOrder)) = DiskMessages(ScannedSlots(disk))

\* ------------------------------------------------------------------------
\* Order of the persisted index
\* ------------------------------------------------------------------------
SortedByDate(entries) ==
    \A i, j \in 1..Len(entries) : i < j => entries[i].date >= entries[j].date

\* C18: after any sequence of updateHistoryIndex and runAnalysis calls (and
\* of listing requests, which make both) the persisted index document is
\* sorted in descending order of the date of its entries.
C18_SortedByDate ==
    indexFile.kind = "array" => SortedByDate(indexFile.entries)

\* A document of entries with different dates, written by a merge whose
\* scan met the chats in another order, and analysed since
C18_Witness ==
    /\ last.op = "analysis"
    /\ last.before # indexFile
    /\ indexFile.kind = "array"
    /\ Len(indexFile.entries) >= 2
    /\ indexFile.entries[1].date > indexFile.entries[Len(indexFile.entries)].date
    /\ ~SortedByDate(BuildIndex(<<>>, Scan(disk, dirOrder)))
    /\ \E e \in Entries(indexFile) : e.lastAnalyzed = Some("now")

\* ------------------------------------------------------------------------
\* Overlapping GET / requests (server.js 307-512)
\* ------------------------------------------------------------------------
\* Every await of the handler is a point where the other request may run.
\* A request goes through: the scan (310-444), the readFile of
\* updateHistoryIndex (137), its writeFile (206), the readFile of
\* runAnalysis (227), its writeFile (293), and the rendering (467-507).

\* The document that the merge is computed from: the content read at 137,
\* whatever the file holds when the request resumes. The first definition
\* reads the file again at the time of the write.
existingContentReread(request, file) == file

existingContent(request, file) == request.read

\* server.js 310-444: the scan of the project directories
StartRequest(r) ==
    /\ requests[r].pc = "idle"
    /\ requests' = [requests EXCEPT ![r] =
          [NoRequest EXCEPT !.pc = "scanned", !.cbp = Scan(disk, dirOrder)]]
    /\ UNCHANGED <<disk, dirOrder, changes, indexFile, last, response, exported>>
    /\ UNCHANGED viewVars

\* server.js 137: await fs.readFile(HISTORY_INDEX_PATH)
MergeRead(r) ==
    /\ requests[r].pc = "scanned"
    /\ requests' = [requests EXCEPT ![r].pc = "mergeRead", ![r].read = indexFile]
    /\ UNCHANGED <<disk, dirOrder, changes, indexFile, last, response, exported>>
    /\ UNCHANGED viewVars

\* server.js 138-206: the merge of the content read and the writeFile
MergeWrite(r) ==
    /\ requests[r].pc = "mergeRead"
    /\ LET merged == updateHistoryIndex(existingContent(requests[r], indexFile),
                                        requests[r].cbp)
       IN  /\ indexFile' = IF merged.wrote THEN merged.file ELSE indexFile
           /\ requests' = [requests EXCEPT
                 ![r].pc = "merged",
                 ![r].written = IF merged.wrote THEN Some(merged.file) ELSE None,
                 ![r].overwrote = IF merged.wrote THEN Some(indexFile) ELSE None]
    /\ UNCHANGED <<disk, dirOrder, changes, last, response, exported>>
    /\ UNCHANGED viewVars

\* server.js 227: await fs.readFile(HISTORY_INDEX_PATH)
AnalysisRead(r) ==
    /\ requests[r].pc = "merged"
    /\ requests' = [requests EXCEPT ![r].pc = "analysisRead", ![r].read = indexFile,
                                    ![r].written = None, ![r].overwrote = None]
    /\ UNCHANGED <<disk, dirOrder, changes, indexFile, last, response, exported>>
    /\ UNCHANGED viewVars

\* server.js 228-293: the analysis of the content read and the writeFile
AnalysisWrite(r) ==
    /\ requests[r].pc = "analysisRead"
    /\ LET analysed == runAnalysis(requests[r].read, disk, dirOrder)
       IN  /\ indexFile' = IF analysed.wrote THEN analysed.file ELSE indexFile
           /\ requests' = [requests EXCEPT
                 ![r].pc = "analysed",
                 ![r].written = IF analysed.wrote THEN Some(analysed.file) ELSE None,
                 ![r].overwrote = IF analysed.wrote THEN Some(indexFile) ELSE None]
    /\ UNCHANGED <<disk, dirOrder, changes, last, response, exported>>
    /\ UNCHANGED viewVars

\* server.js 467-507: the summaries are read and the page is rendered
Render(r) ==
    /\ requests[r].pc = "analysed"
    /\ response' = [status |-> 200, chats |-> Listing(indexFile, requests[r].cbp)]
    /\ requests' = [requests EXCEPT ![r] = NoRequest]
    /\ UNCHANGED <<disk, dirOrder, changes, indexFile, last, exported>>
    /\ UNCHANGED viewVars

InitRace ==
    /\ disk = [slot \in Slots |-> None]
    /\ dirOrder = CHOOSE o \in DirOrders : TRUE
    /\ changes = 0
    /\ indexFile \in {AbsentFile, ArrayFile(<<LegacyEntry>>)}
    /\ last = NoOp("init")
    /\ response = NoResponse
    /\ logLines = <<>>
    /\ view = NoView
    /\ summaryResult = NoSummary
    /\ page = NoPage
    /\ requests = NoRequests
    /\ exported = NoExport

NextRace ==
    \/ \E slot \in Slots : WriteLog(slot, LogFile(1, 1, 1))
    \/ \E r \in Requests : StartRequest(r)
    \/ \E r \in Requests : MergeRead(r)
    \/ \E r \in Requests : MergeWrite(r)
    \/ \E r \in Requests : AnalysisRead(r)
    \/ \E r \in Requests : AnalysisWrite(r)
    \/ \E r \in Requests : Render(r)

SpecRace == InitRace /\ [][NextRace]_vars

\* The document d holds something that the file no longer holds: an entry
\* that is gone, or the summaries of an entry that has none now
EntryLost(d, e) ==
    \A n \in Entries(indexFile) : EntryKey(n) # EntryKey(e)

SummariesLost(d, e) ==
    /\ Truthy(e.paragraphSummary)
    /\ \E n \in Entries(indexFile) :
          EntryKey(n) = EntryKey(e) /\ ~Truthy(n.paragraphSummary)

\* C16: overlapping listing requests are not safe against lost updates. A
\* writeFile call of a request carries the document computed from what the
\* request itself read, also when the file has been rewritten since by the
\* other request: the last writer wins, nothing is merged or retried.
C16_LastWriterWins ==
    [][\A r \in Requests :
          (requests[r].written = None /\ requests'[r].written # None) =>
              /\ indexFile' = requests'[r].written[1]
              /\ requests[r].pc = "mergeRead" =>
                    indexFile' = updateHistoryIndex(requests[r].read,
                                                    requests[r].cbp).file
              /\ requests[r].pc = "analysisRead" =>
                    indexFile' = runAnalysis(requests[r].read, disk, dirOrder).file]_vars

\* A write has just replaced a document that the writer never read, and
\* both an entry added by the other request and the summaries of another
\* entry are gone from the file.
C16_Witness ==
    \E r \in Requests :
        /\ requests[r].overwrote # None
        /\ indexFile = requests[r].written[1]
        /\ LET d == requests[r].overwrote[1] IN
              /\ d # requests[r].read
              /\ d.kind = "array"
              /\ \E e \in Range(d.entries) : EntryLost(d, e)
              /\ \E e \in Range(d.entries) : SummariesLost(d, e)

\* ------------------------------------------------------------------------
\* runAnalysis on a batch of flagged entries (server.js 243-293)
\* ------------------------------------------------------------------------
MaxEntries == 3  \* entries of the index document that runAnalysis starts from

\* An entry as updateHistoryIndex writes it for a new chat
FlaggedEntry(project, id, date) ==
    [ThreadInfoFields(None, project,
        [id |-> id, modifiedTime |-> date, firstMessage |-> <<"H","i",".">>,
         summary |-> Text("tier1", << <<"-">> \o project, id >>, LogFile(1, 1, 1)),
         messageCount |-> 1, lastMessageTimestamp |-> 1])
     EXCEPT !.needsAnalysis = Some(TRUE)]

\* An entry as runAnalysis leaves it
AnalysedEntry(project, id, date) ==
    LET slot == << <<"-">> \o project, id >> IN
    [FlaggedEntry(project, id, date) EXCEPT
        !.oneLineSummary = Some(Text("oneLine", slot, LogFile(1, 1, 1))),
        !.paragraphSummary = Some(Text("paragraph", slot, LogFile(1, 1, 1))),
        !.bulletSummary = Some(Text("bullets", slot, LogFile(1, 1, 1))),
        !.lastAnalyzed = Some("now"),
        !.needsAnalysis = Some(FALSE)]

\* Entries of a batch: two chats of existing directories, a chat of a
\* project whose directory is gone, a chat whose log file is gone, and a
\* chat that is up to date
BatchEntries ==
    { FlaggedEntry(<<"a">>, <<"c">>, 5),
      FlaggedEntry(<<"b">>, <<"c">>, 4),
      FlaggedEntry(<<"z">>, <<"y">>, 3),
      FlaggedEntry(<<"b">>, <<"d">>, 2),
      AnalysedEntry(<<"a">>, <<"e">>, 1) }

BatchDocuments ==
    UNION { { es \in [1..n -> BatchEntries] : \A i, j \in 1..n : i # j => es[i] # es[j] } :
            n \in 1..MaxEntries }

InitBatch ==
    /\ disk \in [Slots -> {None, Some(LogFile(1, 1, 1))}]
    /\ dirOrder = CHOOSE o \in DirOrders : TRUE
    /\ changes = 0
    /\ \E es \in BatchDocuments : indexFile = ArrayFile(es)
    /\ last = NoOp("init")
    /\ response = NoResponse
    /\ logLines = <<>>
    /\ view = NoView
    /\ summaryResult = NoSummary
    /\ page = NoPage
    /\ requests = NoRequests
    /\ exported = NoExport

NextBatch == RunAnalysis

SpecBatch == InitBatch /\ [][NextBatch]_vars

\* The flagged entries of the document that the last runAnalysis read
BatchFlagged == {i \in 1..Len(last.before.entries) : NeedsAnalysis(last.before.entries[i])}

BatchSkipped ==
    {i \in BatchFlagged :
        \/ NotLocated(last.before.entries[i], dirOrder)
        \/ AnalysisThrows(last.before.entries[i], disk, dirOrder)}

\* findIndex (267) finds the entry itself: no earlier entry has its id
FirstOfId(i) == \A j \in 1..(i - 1) : last.before.entries[j].id # last.before.entries[i].id

Undefined == [t |-> "undefined", s |-> <<>>, items |-> <<>>]
Str(s) == [t |-> "string", s |-> s, items |-> <<>>]
Arr(items, json) == [t |-> "array", s |-> json, items |-> items]
Obj(json) == [t |-> "object", s |-> json, items |-> <<>>]

\* JavaScript truthiness of such a value
TruthyVal(v) == v.t \in {"array", "object"} \/ (v.t = "string" /\ v.s # <<>>)

\* A content block. input is None or Some of the tool input: file_path is
\* None, Some(string) or Some(Obj) for a non-string; content is None or
\* Some(string); pretty is JSON.stringify(input, null, 2).
Block(type, text, name, input) ==
    [type |-> type, text |-> text, name |-> name, input |-> input]

ToolInput(file_path, content, pretty) ==
    [file_path |-> file_path, content |-> content, pretty |-> pretty]

TextBlock(text) == Block("text", text, <<>>, None)
ToolUse(name, input) == Block("tool_use", <<>>, name, input)
NullBlock == Block("null", <<>>, <<>>, None)

\* A line: json is "invalid" (JSON.parse throws), "null", "scalar" or
\* "object"; message is None or Some([role, content, model]).
Line(json, type, message, content, timestamp) ==
    [json |-> json, type |-> type, message |-> message, content |-> content,
     timestamp |-> timestamp]

Message(role, content) == Some([role |-> role, content |-> content])

InvalidLine == Line("invalid", "", None, Undefined, None)
NullLine == Line("null", "", None, Undefined, None)
ScalarLine == Line("scalar", "", None, Undefined, None)
UserLine(content) == Line("object", "user", Message("user", content), Undefined, Some(1))
AssistantLine(content) ==
    Line("object", "assistant", Message("assistant", content), Undefined, Some(2))
ToolResultLine(content) == Line("object", "tool_result", None, content, Some(3))
SystemLine(content) == Line("object", "system", None, content, None)
SummaryLine == Line("object", "summary", None, Undefined, None)
\* A tool result whose content is in an embedded message
EmbeddedResultLine(content) ==
    Line("object", "tool_result", Message("user", content), Undefined, Some(3))

\* ------------------------------------------------------------------------
\* GET /chat/:project/:id : the per-line normalizer (server.js 527-660)
\* ------------------------------------------------------------------------
LowerCase ==
    { <<"A","a">>, <<"B","b">>, <<"C","c">>, <<"D","d">>, <<"E","e">>, <<"F","f">>, <<"G","g">>, <<"H","h">>, <<"I","i">>, <<"J","j">>, <<"K","k">>, <<"L","l">>, <<"M","m">>, <<"N","n">>, <<"O","o">>, <<"P","p">>, <<"Q","q">>, <<"R","r">>, <<"S","s">>, <<"T","t">>, <<"U","u">>, <<"V","v">>, <<"W","w">>, <<"X","x">>, <<"Y","y">>, <<"Z","z">> }

ToLowerChar(c) ==
    IF \E p \in LowerCase : p[1] = c
    THEN (CHOOSE p \in LowerCase : p[1] = c)[2] ELSE c

\* String.prototype.toLowerCase
ToLower(s) == [i \in 1..Len(s) |-> ToLowerChar(s[i])]

MinOf(S) == CHOOSE m \in S : \A n \in S : m <= n

\* The last index of the run of characters in `allowed` (or, when negate,
\* not in `allowed`) that starts at c; c - 1 when the run is empty
RunEnd(text, c, allowed, negate) ==
    LET stops == {k \in c..Len(text) : (text[k] \in allowed) = negate} IN
    IF stops = {} THEN Len(text) ELSE MinOf(stops) - 1

\* String(n) of a natural number
RECURSIVE Digits(_)
Digits(n) ==
    LET d == <<"0","1","2","3","4","5","6","7","8","9">>[(n % 10) + 1] IN
    IF n < 10 THEN <<d>> ELSE Digits(n \div 10) \o <<d>>

\* ------------------------------------------------------------------------
\* Regular expressions (part_000 504-513, server.js 670)
\* ------------------------------------------------------------------------
\* The characters of the queries of the model. Letters other than a and A
\* are left out: after a backslash they would be class or boundary escapes.
QueryChars == {"a", "A", ".", "(", "\\", "]"}

\* The character class of the pattern of escapeRegex as the file writes it,
\* [.*+?^${}()|[\\] : the class ends at the first ], and a backslash and a
\* ] follow it
EscapeClass == {".", "*", "+", "?", "^", "$", "{", "}", "(", ")", "|", "[", "\\"}

\* part_000 511-513: string.replace(/[.*+?^${}()|[\\]\\]/g, '\\\\$&'):
\* every class character that is followed by \] is replaced by two
\* backslashes and the three characters
RECURSIVE EscapeFrom(_, _)
EscapeFrom(s, k) ==
    IF k > Len(s) THEN <<>>
    ELSE IF /\ k + 2 <= Len(s)
            /\ s[k] \in EscapeClass /\ s[k + 1] = "\\" /\ s[k + 2] = "]"
    THEN <<"\\", "\\", s[k], "\\", "]">> \o EscapeFrom(s, k + 3)
    ELSE <<s[k]>> \o EscapeFrom(s, k + 1)

escapeRegex(string) == EscapeFrom(string, 1)

\* new RegExp(source, 'gi') for a source over QueryChars: a sequence of
\* tokens, each a literal character or the dot; a ( never closes and a
\* backslash at the end escapes nothing: both are a SyntaxError
Literal(c) == [any |-> FALSE, c |-> c]
AnyChar == [any |-> TRUE, c |-> "."]
SyntaxError == [ok |-> FALSE, tokens |-> <<>>]

RECURSIVE CompileFrom(_, _)
CompileFrom(source, k) ==
    IF k > Len(source) THEN [ok |-> TRUE, tokens |-> <<>>]
    ELSE IF source[k] = "(" THEN SyntaxError
    ELSE IF source[k] = "\\" /\ k = Len(source) THEN SyntaxError
    ELSE LET escaped == source[k] = "\\"
             token == IF escaped THEN Literal(source[k + 1])
                      ELSE IF source[k] = "." THEN AnyChar
                      ELSE Literal(source[k])
             rest == CompileFrom(source, IF escaped THEN k + 2 ELSE k + 1)
         IN  IF rest.ok THEN [ok |-> TRUE, tokens |-> <<token>> \o rest.tokens]
             ELSE SyntaxError

RegExp(source) == CompileFrom(source, 1)

\* The dot matches every character but a line terminator; with the i flag
\* a literal matches in either case
TokenMatches(token, c) ==
    IF token.any THEN c \notin {"\n", "\r"}
    ELSE ToLowerChar(token.c) = ToLowerChar(c)

MatchesAt(text, tokens, i) ==
    /\ i + Len(tokens) - 1 <= Len(text)
    /\ \A k \in 1..Len(tokens) : TokenMatches(tokens[k], text[i + k - 1])

\* text.match(regex) with the g flag: the number of successive matches
RECURSIVE MatchCountFrom(_, _, _)
MatchCountFrom(text, tokens, from) ==
    LET starts == {i \in from..Len(text) : MatchesAt(text, tokens, i)} IN
    IF starts = {} THEN 0
    ELSE 1 + MatchCountFrom(text, tokens, MinOf(starts) + Len(tokens))

\* part_000 504-509: threw when new RegExp raises
countMatches(text, searchTerm) ==
    IF searchTerm = <<>> THEN [threw |-> FALSE, count |-> 0]
    ELSE LET regex == RegExp(escapeRegex(searchTerm)) IN
         IF ~regex.ok THEN [threw |-> TRUE, count |-> 0]
         ELSE [threw |-> FALSE, count |-> MatchCountFrom(text, regex.tokens, 1)]

\* encodeURIComponent over QueryChars
EncodeChar(c) ==
    IF c = "\\" THEN <<"%", "5", "C">>
    ELSE IF c = "]" THEN <<"%", "5", "D">>
    ELSE <<c>>

RECURSIVE encodeURIComponent(_)
encodeURIComponent(s) ==
    IF s = <<>> THEN <<>> ELSE EncodeChar(Head(s)) \o encodeURIComponent(Tail(s))

StartsWith(s, prefix) ==
    Len(s) >= Len(prefix) /\ SubSeq(s, 1, Len(prefix)) = prefix

\* s.split('\n')
RECURSIVE SplitLines(_)
SplitLines(s) ==
    LET nls == {i \in 1..Len(s) : s[i] = "\n"} IN
    IF nls = {} THEN <<s>>
    ELSE LET n == CHOOSE m \in nls : \A k \in nls : m <= k
         IN  <<SubSeq(s, 1, n - 1)>> \o SplitLines(SubSeq(s, n + 1, Len(s)))

\* lines.join('\n')
RECURSIVE JoinLines(_)
JoinLines(ls) ==
    IF ls = <<>> THEN <<>>
    ELSE IF Len(ls) = 1 THEN ls[1]
    ELSE ls[1] \o <<"\n">> \o JoinLines(Tail(ls))

\* The level of an ATX heading line: 1 to 6 # and a space; 0 for other lines
HeadingLevel(line) ==
    LET n == RunEnd(line, 1, {"#"}, FALSE) IN
    IF n >= 1 /\ n <= 6 /\ n < Len(line) /\ line[n + 1] = " " THEN n ELSE 0

\* The block structure of marked(text): headings, rules, fenced code blocks
\* and paragraphs
RECURSIVE MarkedLines(_, _)
MarkedLines(ls, inCode) ==
    IF ls = <<>> THEN <<>>
    ELSE LET line == Head(ls) IN
         IF inCode
         THEN IF StartsWith(line, <<BQ,BQ,BQ>>)
              THEN <<<<"<","/","c","o","d","e",">","<","/","p","r","e",">">>>> \o MarkedLines(Tail(ls), FALSE)
              ELSE <<line>> \o MarkedLines(Tail(ls), TRUE)
         ELSE IF Trim(line) = <<>> THEN MarkedLines(Tail(ls), FALSE)
         ELSE IF HeadingLevel(line) > 0
              THEN LET h == <<"h", Digits(HeadingLevel(line))[1]>> IN
                   <<<<"<">> \o h \o <<">">>
                        \o Trim(SubSeq(line, HeadingLevel(line) + 2, Len(line)))
                        \o <<"<","/">> \o h \o <<">">>>>
                      \o MarkedLines(Tail(ls), FALSE)
         ELSE IF line = <<"-","-","-">>
              THEN <<<<"<","h","r",">">>>> \o MarkedLines(Tail(ls), FALSE)
         ELSE IF StartsWith(line, <<BQ,BQ,BQ>>)
              THEN <<<<"<","p","r","e",">","<","c","o","d","e"," ","c","l","a","s","s","=","\"","l","a","n","g","u","a","g","e","-">> \o SubSeq(line, 4, Len(line)) \o <<"\"",">">>>>
                      \o MarkedLines(Tail(ls), TRUE)
         ELSE <<<<"<","p",">">> \o line \o <<"<","/","p",">">>>> \o MarkedLines(Tail(ls), FALSE)

Marked(text) == JoinLines(MarkedLines(SplitLines(text), FALSE))

\* Every file tagged as plain text
LanguageAlwaysText(fileExt) == <<"t","e","x","t">>

\* server.js 567-613: the language of a file extension; <<>> for markdown
Language(fileExt) ==
    CASE fileExt \in {<<"m","d">>, <<"m","a","r","k","d","o","w","n">>} -> <<>>
      [] fileExt \in {<<"j","s">>, <<"j","s","x">>} -> <<"j","a","v","a","s","c","r","i","p","t">>
      [] fileExt \in {<<"t","s">>, <<"t","s","x">>} -> <<"t","y","p","e","s","c","r","i","p","t">>
      [] fileExt = <<"p","y">> -> <<"p","y","t","h","o","n">>
      [] fileExt = <<"h","t","m","l">> -> <<"h","t","m","l">>
      [] fileExt = <<"c","s","s">> -> <<"c","s","s">>
      [] fileExt = <<"j","s","o","n">> -> <<"j","s","o","n">>
      [] fileExt \in {<<"y","m","l">>, <<"y","a","m","l">>} -> <<"y","a","m","l">>
      [] fileExt = <<"x","m","l">> -> <<"x","m","l">>
      [] fileExt = <<"s","q","l">> -> <<"s","q","l">>
      [] fileExt \in {<<"s","h">>, <<"b","a","s","h">>} -> <<"b","a","s","h">>
      [] OTHER -> <<"t","e","x","t">>

\* The outcome of a piece of code that may throw
Ok(text) == [ok |-> TRUE, text |-> text]
Throws == [ok |-> FALSE, text |-> <<>>]

\* input.content as it is concatenated into a string
ContentText(content) == IF content = None THEN <<"u","n","d","e","f","i","n","e","d">> ELSE content[1]

\* server.js 559-618: the file section of a Write or Read tool call
FileSection(input) ==
    IF input.file_path[1].t # "string" THEN Throws       \* filePath.split
    ELSE LET filePath == input.file_path[1].s
             fileExt == ToLower(LastPart(filePath, "."))
             content == ContentText(input.content)
             fileName == LastPart(filePath, "/")
             heading == <<"\n","#","#","#"," ">> \o fileName \o <<"\n","\n">>
         IN  IF fileExt \in {<<"m","d">>, <<"m","a","r","k","d","o","w","n">>}
             THEN Ok(heading \o <<"-","-","-","\n","\n">> \o content \o <<"\n","\n">> \o <<"-","-","-","\n","\n">>)
             ELSE Ok(heading \o <<BQ,BQ,BQ>> \o Language(fileExt) \o <<"\n">> \o content
                       \o <<"\n",BQ,BQ,BQ,"\n">>)

\* server.js 551-624: the text of one content block of an assistant message
BlockText(item) ==
    IF item.type = "null" THEN Throws                      \* item.type
    ELSE IF item.type = "text" THEN Ok(item.text \o <<"\n">>)
    ELSE IF item.type = "tool_use"
    THEN LET call == <<"\n","*","*","T","o","o","l"," ","C","a","l","l",":"," ">> \o item.name \o <<"*","*","\n">> IN
         IF item.input = None THEN Ok(call)
         ELSE LET input == item.input[1]
                  hasPath == input.file_path # None /\ TruthyVal(input.file_path[1])
                  hasContent == input.content # None /\ input.content[1] # <<>>
              IN  IF \/ (item.name = <<"W","r","i","t","e">> /\ hasPath /\ hasContent)
                     \/ (item.name = <<"R","e","a","d">> /\ hasPath)
                  THEN LET section == FileSection(input) IN
                       IF section.ok THEN Ok(call \o section.text) ELSE Throws
                  ELSE Ok(call \o <<BQ,BQ,BQ,"j","s","o","n","\n">> \o input.pretty \o <<"\n",BQ,BQ,BQ,"\n">>)
    ELSE Ok(<<>>)

\* server.js 548-628: textContent of an assistant message
RECURSIVE BlocksText(_)
BlocksText(items) ==
    IF items = <<>> THEN Ok(<<>>)
    ELSE LET first == BlockText(Head(items))
             rest == BlocksText(Tail(items))
         IN  IF first.ok /\ rest.ok THEN Ok(first.text \o rest.text) ELSE Throws

AssistantText(content) ==
    IF content.t = "array" THEN BlocksText(content.items)
    ELSE IF content.t = "string" THEN Ok(content.s)
    ELSE Ok(<<>>)

\* The outcome of the code of one line: a message, null, or an exception
NoMessage ==
    [role |-> "", content |-> <<>>, htmlContent |-> None, timestamp |-> None]
Returns(msg) == [t |-> "message", msg |-> msg]
ReturnsNull == [t |-> "null", msg |-> NoMessage]
ThrowsError == [t |-> "throw", msg |-> NoMessage]

\* server.js 529-654: the body of the try block
NormalizeBody(line) ==
    IF line.json = "invalid" THEN ThrowsError              \* JSON.parse
    ELSE IF line.json = "null" THEN ThrowsError            \* entry.message
    ELSE IF line.json = "scalar" THEN ReturnsNull
    ELSE IF /\ line.message # None
            /\ line.type = "user" /\ line.message[1].role = "user"
    THEN LET content == line.message[1].content IN
         IF ~TruthyVal(content)
         THEN Returns([role |-> "user", content |-> <<>>, htmlContent |-> None,
                       timestamp |-> line.timestamp])
         ELSE IF content.t # "string" THEN ThrowsError     \* marked(msg.content)
         ELSE Returns([role |-> "user", content |-> content.s,
                       htmlContent |-> Some(Marked(content.s)),
                       timestamp |-> line.timestamp])
    ELSE IF /\ line.message # None
            /\ line.type = "assistant" /\ line.message[1].role = "assistant"
    THEN LET textContent == AssistantText(line.message[1].content) IN
         IF ~textContent.ok THEN ThrowsError
         ELSE Returns([role |-> "assistant", content |-> Trim(textContent.text),
                       htmlContent |-> IF textContent.text # <<>>
                                       THEN Some(Marked(Trim(textContent.text)))
                                       ELSE None,
                       timestamp |-> line.timestamp])
    ELSE IF line.type = "tool_result" /\ TruthyVal(line.content)
    THEN LET content == line.content.s IN
         Returns([role |-> "tool_result", content |-> content,
                  htmlContent |-> Some(Marked(<<BQ,BQ,BQ,"\n">> \o content \o <<"\n",BQ,BQ,BQ>>)),
                  timestamp |-> line.timestamp])
    ELSE ReturnsNull

\* The per-line function without its try/catch
NormalizeLineNoCatch(line) == NormalizeBody(line)

\* server.js 527-659: the function mapped over the lines
NormalizeLine(line) ==
    LET r == NormalizeBody(line) IN
    IF r.t = "throw" THEN ReturnsNull ELSE r

\* server.js 670: searchTerm.replace(/[.*+?^${}()|[\]\\]/g, '\\$&')
RECURSIVE EscapeRegExp(_)
EscapeRegExp(s) ==
    IF s = <<>> THEN <<>>
    ELSE (IF Head(s) \in EscapeClass \cup {"]"} THEN <<"\\", Head(s)>> ELSE <<Head(s)>>)
             \o EscapeRegExp(Tail(s))

\* An anchor whose id does not follow the counter
SearchAnchorFixed(counter, match) ==
    <<"<","a"," ","i","d","=","\"","s","e","a","r","c","h","_">> \o Digits(1) \o <<"\""," ","c","l","a","s","s","=","\"","s","e","a","r","c","h","-","h","i","g","h","l","i","g","h","t","\"",">">>
        \o match \o <<"<","/","a",">">>

\* server.js 680: the anchor of a match
SearchAnchor(counter, match) ==
    <<"<","a"," ","i","d","=","\"","s","e","a","r","c","h","_">> \o Digits(counter) \o <<"\""," ","c","l","a","s","s","=","\"","s","e","a","r","c","h","-","h","i","g","h","l","i","g","h","t","\"",">">>
        \o match \o <<"<","/","a",">">>

\* server.js 678-681: line.replace(regex, ...) from position from on; the
\* group of the pattern holds the whole match
RECURSIVE HighlightFrom(_, _, _, _)
HighlightFrom(line, tokens, from, counter) ==
    LET starts == {i \in from..Len(line) : MatchesAt(line, tokens, i)} IN
    IF starts = {} THEN [text |-> SubSeq(line, from, Len(line)), counter |-> counter]
    ELSE LET i == MinOf(starts)
             rest == HighlightFrom(line, tokens, i + Len(tokens), counter + 1)
         IN  [text |-> SubSeq(line, from, i - 1)
                         \o SearchAnchor(counter + 1, SubSeq(line, i, i + Len(tokens) - 1))
                         \o rest.text,
              counter |-> rest.counter]

\* server.js 674-682: lines.map; heading lines are left as they are
RECURSIVE HighlightLines(_, _, _)
HighlightLines(lines, tokens, counter) ==
    IF lines = <<>> THEN [lines |-> <<>>, counter |-> counter]
    ELSE LET first == IF StartsWith(Trim(Head(lines)), <<"#","#","#"," ">>)
                      THEN [text |-> Head(lines), counter |-> counter]
                      ELSE HighlightFrom(Head(lines), tokens, 1, counter)
             rest == HighlightLines(Tail(lines), tokens, first.counter)
         IN  [lines |-> <<first.text>> \o rest.lines, counter |-> rest.counter]

\* server.js 668-685, with globalSearchCounter passed in and out; searchTerm
\* is None or Some of a non-empty string (server.js 520)
highlightSearchTerm(text, searchTerm, counter) ==
    IF searchTerm = None \/ text = <<>> THEN [text |-> text, counter |-> counter]
    ELSE LET regex == RegExp(EscapeRegExp(searchTerm[1]))
             processedLines == HighlightLines(SplitLines(text), regex.tokens, counter)
         IN  [text |-> JoinLines(processedLines.lines), counter |-> processedLines.counter]

\* server.js 689-697: messages.forEach; one of htmlContent and content is
\* highlighted
RECURSIVE HighlightMessages(_, _, _)
HighlightMessages(messages, searchTerm, counter) ==
    IF messages = <<>> THEN [messages |-> <<>>, counter |-> counter]
    ELSE LET msg == Head(messages)
             html == msg.htmlContent # None /\ msg.htmlContent[1] # <<>>
             done == IF html THEN highlightSearchTerm(msg.htmlContent[1], searchTerm, counter)
                     ELSE highlightSearchTerm(msg.content, searchTerm, counter)
             first == IF html THEN [msg EXCEPT !.htmlContent = Some(done.text)]
                      ELSE [msg EXCEPT !.content = done.text]
             rest == HighlightMessages(Tail(messages), searchTerm, done.counter)
         IN  [messages |-> <<first>> \o rest.messages, counter |-> rest.counter]

\* The response of the detail view
ChatView(status, messages, originalMessages, searchTerm, searchCount) ==
    [status |-> status, messages |-> messages, originalMessages |-> originalMessages,
     searchTerm |-> searchTerm, searchCount |-> searchCount]

\* server.js 516-714: the request on the lines of a log file
ChatResponse(lines, searchTerm) ==
    LET results == [i \in 1..Len(lines) |-> NormalizeLine(lines[i])] IN
    IF \E i \in 1..Len(results) : results[i].t = "throw"
    THEN ChatView(404, <<>>, <<>>, searchTerm, 0)          \* caught at 711
    ELSE LET kept == SelectSeq(results, LAMBDA r : r.t = "message")
             messages == [i \in 1..Len(kept) |-> kept[i].msg]
             highlighted == IF searchTerm # None
                            THEN HighlightMessages(messages, searchTerm, 0)
                            ELSE [messages |-> messages, counter |-> 0]
         IN  ChatView(200, highlighted.messages, messages, searchTerm, highlighted.counter)

\* ------------------------------------------------------------------------
\* State machine of the detail view
\* ------------------------------------------------------------------------
NotesMd == ToolInput(Some(Str(<<"/","w","/","n","o","t","e","s",".","m","d">>)), Some(<<"#"," ","H","i">>), <<"{","}">>)
NotesPy == ToolInput(Some(Str(<<"/","w","/","n","o","t","e","s",".","p","y">>)), Some(<<"x"," ","="," ","1">>), <<"{","}">>)
BadPath == ToolInput(Some(Obj(<<"5">>)), None, <<"{","}">>)
LsCommand == ToolInput(None, None, <<"{","\n"," "," ","\"","c","o","m","m","a","n","d","\"",":"," ","\"","l","s","\"","\n","}">>)

LineSamples ==
    { InvalidLine,
      NullLine,
      ScalarLine,
      SummaryLine,
      UserLine(Str(<<"c","r","e","a","t","e","d"," ","a"," ","l","o","g","i","n"," ","p","a","g","e">>)),
      UserLine(Str(<<>>)),
      UserLine(Str(<<" ">>)),
      UserLine(Arr(<<Block("tool_result", <<>>, <<>>, None)>>, <<"[","{","}","]">>)),
      AssistantLine(Str(<<"f","i","x","e","d"," ","t","h","e"," ","a","u","t","h"," ","b","u","g"," ","i","n"," ","a","p","p",".","j","s">>)),
      AssistantLine(Arr(<<TextBlock(<<"o","k">>), ToolUse(<<"W","r","i","t","e">>, Some(NotesMd))>>, <<"[","]">>)),
      AssistantLine(Arr(<<ToolUse(<<"W","r","i","t","e">>, Some(NotesPy))>>, <<"[","]">>)),
      AssistantLine(Arr(<<ToolUse(<<"B","a","s","h">>, Some(LsCommand))>>, <<"[","]">>)),
      AssistantLine(Arr(<<TextBlock(<<"o","k">>), NullBlock>>, <<"[","]">>)),
      AssistantLine(Arr(<<ToolUse(<<"R","e","a","d">>, Some(BadPath))>>, <<"[","]">>)),
      ToolResultLine(Str(<<"d","o","n","e">>)),
      ToolResultLine(Obj(<<"{","\"","a","\"",":","1","}">>)),
      SystemLine(Str(<<"b","o","o","t">>)),
      EmbeddedResultLine(Str(<<"o","u","t">>)) }

\* The log files of at most MaxLines lines
LogsOf(samples) ==
    UNION { [1..n -> samples] : n \in 0..MaxLines }

\* The values of req.query.search || null
SearchTerms == {None, Some(<<" ">>), Some(<<"o">>), Some(<<"n","o","t","e","s">>), Some(<<"P">>), Some(<<".">>)}

InitView ==
    /\ disk = [slot \in Slots |-> None]
    /\ dirOrder = CHOOSE o \in DirOrders : TRUE
    /\ changes = 0
    /\ indexFile = AbsentFile
    /\ last = NoOp("init")
    /\ response = NoResponse
    /\ logLines \in LogsOf(LineSamples)
    /\ view = NoView
    /\ summaryResult = NoSummary
    /\ page = NoPage
    /\ requests = NoRequests
    /\ exported = NoExport

\* GET /chat/:project/:id
ViewChat ==
    /\ \E searchTerm \in SearchTerms : view' = ChatResponse(logLines, searchTerm)
    /\ UNCHANGED <<logLines, summaryResult, page>>
    /\ UNCHANGED indexVars
    /\ UNCHANGED otherVars

NextView == ViewChat

SpecView == InitView /\ [][NextView]_vars

\* The messages of the lines whose code returns a message, in line order
ExpectedMessages(lines) ==
    LET good == SelectSeq(lines, LAMBDA l : NormalizeBody(l).t = "message")
    IN  [i \in 1..Len(good) |-> NormalizeBody(good[i]).msg]

\* C9: the detail view answers every log file: each line yields one message
\* or is dropped, no exception of a line escapes, and the messages of the
\* remaining lines are rendered in line order.
C9_NormalizerTotal ==
    view.status # 0 =>
        /\ view.status = 200
        /\ Len(view.messages) <= Len(logLines)
        /\ view.originalMessages = ExpectedMessages(logLines)
        /\ Len(view.messages) = Len(view.originalMessages)

\* C9 witness: a rendered conversation in which a line that threw precedes
\* a line that yielded a message
C9_Witness ==
    /\ view.status = 200
    /\ Len(view.messages) = 1
    /\ \E i, j \in 1..Len(logLines) :
          /\ i < j
          /\ NormalizeBody(logLines[i]).t = "throw"
          /\ NormalizeBody(logLines[j]).t = "message"

\* What the page shows of a message: htmlContent, or content without it
Rendered(msg) ==
    IF msg.htmlContent # None /\ msg.htmlContent[1] # <<>> THEN msg.htmlContent[1]
    ELSE msg.content

AnchorStart == <<"<","a"," ","i","d","=","\"","s","e","a","r","c","h","_">>

\* The number written in decimal digits
RECURSIVE ParseInt(_)
ParseInt(digits) ==
    IF digits = <<>> THEN 0
    ELSE LET d == digits[Len(digits)]
             v == CHOOSE n \in 0..9 : Digits(n) = <<d>>
         IN  10 * ParseInt(SubSeq(digits, 1, Len(digits) - 1)) + v

\* The ids k of the anchors search_k of a text, in the order of the text
AnchorIds(text) ==
    LET at == {i \in 1..Len(text) :
                  /\ i + Len(AnchorStart) - 1 <= Len(text)
                  /\ SubSeq(text, i, i + Len(AnchorStart) - 1) = AnchorStart}
        idOf(i) == LET from == i + Len(AnchorStart)
                   IN  ParseInt(SubSeq(text, from, RunEnd(text, from, {"\""}, TRUE)))
        nth(k) == CHOOSE i \in at : Cardinality({j \in at : j < i}) = k - 1
    IN  [k \in 1..Cardinality(at) |-> idOf(nth(k))]

\* The ids of the anchors of a conversation, message after message
RECURSIVE ConversationAnchorIds(_)
ConversationAnchorIds(messages) ==
    IF messages = <<>> THEN <<>>
    ELSE AnchorIds(Rendered(Head(messages))) \o ConversationAnchorIds(Tail(messages))

SearchRendered == view.status = 200 /\ view.searchTerm # None

\* C14: in a conversation rendered with a search term, the ids of the
\* highlight anchors, read in document order, are 1, 2, ..., searchCount:
\* unique, increasing and without gaps; only the shown form of a message
\* (htmlContent, or content without it) is highlighted.
C14_AnchorIdsSequential ==
    SearchRendered =>
        /\ ConversationAnchorIds(view.messages) = [k \in 1..view.searchCount |-> k]
        /\ \A m \in 1..Len(view.messages) :
              LET msg == view.messages[m]
                  original == view.originalMessages[m]
              IN  IF original.htmlContent # None /\ original.htmlContent[1] # <<>>
                  THEN msg.content = original.content
                  ELSE msg.htmlContent = original.htmlContent

\* C14 witness: anchors in two messages, one of them without htmlContent,
\* and a message with several anchors
C14_Witness ==
    /\ SearchRendered
    /\ Len(view.messages) >= 2
    /\ view.searchCount >= 3
    /\ \E m, n \in 1..Len(view.messages) :
          /\ m < n
          /\ view.messages[m].htmlContent = Some(<<>>)
          /\ AnchorIds(view.messages[m].content) # <<>>
          /\ Len(AnchorIds(Rendered(view.messages[n]))) >= 2

\* The lines of the shown form of a message
RenderedLines(msg) == SplitLines(Rendered(msg))

\* C15: in a conversation rendered with a search term, the line of the
\* file heading of a Write or Read tool call is as it was before the
\* highlighting: the file name is not wrapped in an anchor and takes no
\* anchor id.
C15_FileHeadingNotHighlighted ==
    SearchRendered =>
        \A m \in 1..Len(view.messages) :
            view.messages[m].role = "assistant" =>
                \A j \in 1..Len(RenderedLines(view.originalMessages[m])) :
                    StartsWith(RenderedLines(view.originalMessages[m])[j], <<"<","h","3",">">>)
                        => RenderedLines(view.messages[m])[j]
                               = RenderedLines(view.originalMessages[m])[j]

\* ------------------------------------------------------------------------
\* Write tool calls in the detail view (server.js 556-622)
\* ------------------------------------------------------------------------
\* Files written by a tool call: directory, base name, and the extension
\* in lower case (none for a name without a dot)
WrittenFile(dir, name, ext) == [dir |-> dir, name |-> name, ext |-> ext]

WrittenFiles ==
    { WrittenFile(<<"/","w","/">>, <<"n","o","t","e","s",".","m","d">>, <<"m","d">>),
      WrittenFile(<<"/","w",".","d","/">>, <<"a",".","m","a","r","k","d","o","w","n">>, <<"m","a","r","k","d","o","w","n">>),
      WrittenFile(<<>>, <<"R","E","A","D","M","E",".","M","D">>, <<"m","d">>),
      WrittenFile(<<"/","w","/">>, <<"n","o","t","e","s",".","p","y">>, <<"p","y">>),
      WrittenFile(<<"/","w","/">>, <<"a",".","b",".","t","s">>, <<"t","s">>),
      WrittenFile(<<"/","w","/">>, <<"a",".","t","s","x">>, <<"t","s","x">>),
      WrittenFile(<<>>, <<"a",".","j","s">>, <<"j","s">>),
      WrittenFile(<<"/","w","/">>, <<"a",".","J","S","X">>, <<"j","s","x">>),
      WrittenFile(<<"/","w","/">>, <<"a",".","x","y","z">>, <<"x","y","z">>),
      WrittenFile(<<"/","w",".","d","/">>, <<"M","a","k","e","f","i","l","e">>, <<>>) }

WrittenContents == { <<"#"," ","H","i">>, <<"x"," ","="," ","1">> }

\* An assistant record with a Write tool call, after a text block or alone
WriteLine(file, content, withText) ==
    LET call == ToolUse(<<"W","r","i","t","e">>,
                    Some(ToolInput(Some(Str(file.dir \o file.name)), Some(content), <<"{","}">>)))
    IN  AssistantLine(Arr(IF withText THEN <<TextBlock(<<"o","k">>), call>> ELSE <<call>>, <<"[","]">>))

InitWrite ==
    /\ disk = [slot \in Slots |-> None]
    /\ dirOrder = CHOOSE o \in DirOrders : TRUE
    /\ changes = 0
    /\ indexFile = AbsentFile
    /\ last = NoOp("init")
    /\ response = NoResponse
    /\ \E file \in WrittenFiles, content \in WrittenContents, withText \in BOOLEAN :
          logLines = <<WriteLine(file, content, withText)>>
    /\ view = NoView
    /\ summaryResult = NoSummary
    /\ page = NoPage
    /\ requests = NoRequests
    /\ exported = NoExport

SpecWrite == InitWrite /\ [][NextView]_vars

\* The language tags named for the extensions
TagOf(ext) ==
    CASE ext = <<"p","y">> -> <<"p","y","t","h","o","n">>
      [] ext \in {<<"t","s">>, <<"t","s","x">>} -> <<"t","y","p","e","s","c","r","i","p","t">>
      [] ext \in {<<"j","s">>, <<"j","s","x">>} -> <<"j","a","v","a","s","c","r","i","p","t">>
      [] OTHER -> <<"t","e","x","t">>

\* The number of code fences of a text
Fences(text) ==
    Cardinality({i \in 1..(Len(text) - 2) : SubSeq(text, i, i + 2) = <<BQ,BQ,BQ>>})

\* The rendering of a written file: the heading with the base name, then
\* the content between rules for markdown, in one fenced block otherwise
WriteRendering(file, content) ==
    <<"#","#","#"," ">> \o file.name \o <<"\n","\n">>
        \o (IF file.ext \in {<<"m","d">>, <<"m","a","r","k","d","o","w","n">>}
            THEN <<"-","-","-","\n","\n">> \o content \o <<"\n","\n","-","-","-">>
            ELSE <<BQ,BQ,BQ>> \o TagOf(file.ext) \o <<"\n">> \o content \o <<"\n">> \o <<BQ,BQ,BQ>>)

\* C22: a Write tool call with a file path and content is rendered with a
\* heading that shows the base name of the path only, and with the content
\* between rules, without a code fence, when the extension is md or
\* markdown, and otherwise in exactly one fenced block tagged python for
\* py, typescript for ts and tsx, javascript for js and jsx, and text for
\* an unknown extension.
C22_WriteRendering ==
    view.status = 200 =>
        \A file \in WrittenFiles, content \in WrittenContents, withText \in BOOLEAN :
            logLines = <<WriteLine(file, content, withText)>> =>
                /\ Len(view.originalMessages) = 1
                /\ view.originalMessages[1].content =
                      (IF withText THEN <<"o","k","\n","\n">> ELSE <<>>)
                          \o <<"*","*","T","o","o","l"," ","C","a","l","l",":"," ","W","r","i","t","e","*","*","\n","\n">>
                          \o WriteRendering(file, content)
                /\ Fences(view.originalMessages[1].content) =
                      (IF file.ext \in {<<"m","d">>, <<"m","a","r","k","d","o","w","n">>} THEN 0 ELSE 2)

\* A rendered Write of a python file in a directory, after a text block
C22_Witness ==
    /\ view.status = 200
    /\ \E content \in WrittenContents :
          logLines = <<WriteLine(WrittenFile(<<"/","w","/">>, <<"n","o","t","e","s",".","p","y">>, <<"p","y">>), content, TRUE)>>
    /\ Len(view.originalMessages) = 1
    /\ Fences(view.originalMessages[1].content) = 2
    /\ Includes(view.originalMessages[1].content, <<"#","#","#"," ","n","o","t","e","s",".","p","y">>)
    /\ Includes(view.originalMessages[1].content, <<"p","y","t","h","o","n">>)

\* ------------------------------------------------------------------------
\* GET / : the messages of one log file (server.js 335-396)
\* ------------------------------------------------------------------------
\* The outcome of the code of one line: nothing, a user message (any
\* value) or an assistant message (a string); from is the line number
Extracted(role, content, from) == [role |-> role, content |-> content, from |-> from]

\* String(v) of a content value that is not a string
RECURSIVE Join(_, _)
Join(ls, sep) ==
    IF ls = <<>> THEN <<>>
    ELSE IF Len(ls) = 1 THEN ls[1]
    ELSE ls[1] \o sep \o Join(Tail(ls), sep)

ObjectToString(v) ==
    IF v.t = "array"
    THEN Join([i \in 1..Len(v.items) |-> <<"[","o","b","j","e","c","t"," ","O","b","j","e","c","t","]">>], <<",">>)
    ELSE <<"[","o","b","j","e","c","t"," ","O","b","j","e","c","t","]">>

\* JSON.stringify(input) from JSON.stringify(input, null, 2): the white
\* space outside string literals is dropped
RECURSIVE CompactFrom(_, _, _)
CompactFrom(pretty, k, inString) ==
    IF k > Len(pretty) THEN <<>>
    ELSE LET c == pretty[k]
             quote == c = "\"" /\ (k = 1 \/ pretty[k - 1] # "\\")
             keep == inString \/ c \notin {" ", "\n"}
         IN  (IF keep THEN <<c>> ELSE <<>>)
                 \o CompactFrom(pretty, k + 1, IF quote THEN ~inString ELSE inString)

Compact(pretty) == CompactFrom(pretty, 1, FALSE)

\* server.js 356-374: the text of one content block; throws on a null
\* block. A tool_result block of the model has no content.
ListingBlockText(item) ==
    IF item.type = "null" THEN Throws
    ELSE IF item.type = "text" THEN Ok(item.text \o <<" ">>)
    ELSE IF item.type = "tool_use"
    THEN Ok(<<"T","o","o","l",":"," ">> \o item.name \o <<" ">>
              \o (IF item.input # None THEN Compact(item.input[1].pretty) \o <<" ">>
                  ELSE <<>>))
    ELSE Ok(<<>>)

RECURSIVE ListingBlocksText(_)
ListingBlocksText(items) ==
    IF items = <<>> THEN Ok(<<>>)
    ELSE LET first == ListingBlockText(Head(items))
             rest == ListingBlocksText(Tail(items))
         IN  IF first.ok /\ rest.ok THEN Ok(first.text \o rest.text) ELSE Throws

\* typeof v === 'string' ? v : JSON.stringify(v)
Stringified(v) == v.s

\* server.js 344-395: the messages that one line adds (none or one)
ExtractLine(line, from) ==
    IF line.json \in {"invalid", "null", "scalar"} THEN <<>>
    ELSE IF /\ line.type = "user" /\ line.message # None
            /\ line.message[1].role = "user"
    THEN LET content == line.message[1].content IN
         <<Extracted("user", IF TruthyVal(content) THEN content ELSE Str(<<>>), from)>>
    ELSE IF /\ line.type = "assistant" /\ line.message # None
            /\ line.message[1].role = "assistant"
    THEN LET content == line.message[1].content
             textContent == IF content.t = "array" THEN ListingBlocksText(content.items)
                            ELSE IF content.t = "string" THEN Ok(content.s)
                            ELSE Ok(<<>>)
         IN  IF textContent.ok /\ Trim(textContent.text) # <<>>
             THEN <<Extracted("assistant", Str(Trim(textContent.text)), from)>>
             ELSE <<>>
    ELSE IF line.type \in {"tool_result", "system"}
    THEN LET content ==
                 IF TruthyVal(line.content) THEN Stringified(line.content)
                 ELSE IF line.message # None /\ TruthyVal(line.message[1].content)
                 THEN Stringified(line.message[1].content)
                 ELSE <<>>
         IN  IF Trim(content) # <<>>
             THEN <<Extracted("assistant", Str(Trim(content)), from)>>
             ELSE <<>>
    ELSE <<>>

\* The messages of a log file in line order
RECURSIVE ExtractFrom(_, _)
ExtractFrom(lines, k) ==
    IF k > Len(lines) THEN <<>>
    ELSE ExtractLine(lines[k], k) \o ExtractFrom(lines, k + 1)

ExtractMessages(lines) == ExtractFrom(lines, 1)

\* userMessages and assistantMessages
MessagesOf(extracted, role) ==
    LET mine == SelectSeq(extracted, LAMBDA m : m.role = role)
    IN  [i \in 1..Len(mine) |-> mine[i].content]

\* ------------------------------------------------------------------------
\* generateChatSummary (server.js 14-109)
\* ------------------------------------------------------------------------
Verbs ==
    << <<"c","r","e","a","t","e","d">>,
       <<"b","u","i","l","t">>,
       <<"i","m","p","l","e","m","e","n","t","e","d">>,
       <<"a","d","d","e","d">>,
       <<"f","i","x","e","d">>,
       <<"u","p","d","a","t","e","d">>,
       <<"i","n","s","t","a","l","l","e","d">>,
       <<"c","o","n","f","i","g","u","r","e","d">>,
       <<"d","e","p","l","o","y","e","d">>,
       <<"s","e","t","u","p">>,
       <<"w","r","o","t","e">>,
       <<"d","e","s","i","g","n","e","d">>,
       <<"d","e","v","e","l","o","p","e","d">>,
       <<"o","p","t","i","m","i","z","e","d">>,
       <<"r","e","f","a","c","t","o","r","e","d">>,
       <<"d","e","b","u","g","g","e","d">>,
       <<"r","e","s","o","l","v","e","d">>,
       <<"c","o","m","p","l","e","t","e","d">> >>

FileExtensions ==
    << <<"j","s">>,
       <<"p","y">>,
       <<"h","t","m","l">>,
       <<"c","s","s">>,
       <<"j","s","o","n">>,
       <<"m","d">>,
       <<"t","x","t">>,
       <<"y","m","l">>,
       <<"y","a","m","l">>,
       <<"x","m","l">>,
       <<"s","q","l">>,
       <<"s","h">>,
       <<"b","a","t">>,
       <<"e","j","s">>,
       <<"t","s">>,
       <<"t","s","x">>,
       <<"j","s","x">> >>

WordChars ==
    { "a", "b", "c", "d", "e", "f", "g", "h", "i", "j", "k", "l", "m", "n", "o", "p", "q", "r", "s", "t", "u", "v", "w", "x", "y", "z", "A", "B", "C", "D", "E", "F", "G", "H", "I", "J", "K", "L", "M", "N", "O", "P", "Q", "R", "S", "T", "U", "V", "W", "X", "Y", "Z", "0", "1", "2", "3", "4", "5", "6", "7", "8", "9", "_" }

Terminators == {".", "!", "?"}

Spaces == {" ", "\n", "\t"}

\* A match of verb\s+([^.!?]+) that starts at i: None, or its capture and
\* the index of its last character
VerbMatchAt(text, verb, i) ==
    IF i + Len(verb) - 1 > Len(text) THEN None
    ELSE IF SubSeq(text, i, i + Len(verb) - 1) # verb THEN None
    ELSE LET j == i + Len(verb)
             c == RunEnd(text, j, Spaces, FALSE) + 1
             capEnd == RunEnd(text, c, Terminators, TRUE)
         IN  IF c = j THEN None
             ELSE IF capEnd >= c
             THEN Some([capture |-> SubSeq(text, c, capEnd), end |-> capEnd])
             ELSE IF c - j >= 2
             THEN Some([capture |-> <<text[c - 1]>>, end |-> c - 1])
             ELSE None

\* The captures of the successive matches of the global pattern
RECURSIVE VerbMatches(_, _, _)
VerbMatches(text, verb, from) ==
    LET starts == {i \in from..Len(text) : VerbMatchAt(text, verb, i) # None} IN
    IF starts = {} THEN <<>>
    ELSE LET m == VerbMatchAt(text, verb, MinOf(starts))[1]
         IN  <<m.capture>> \o VerbMatches(text, verb, m.end + 1)

\* replace(/\s+/g, ' ')
RECURSIVE CollapseSpaces(_)
CollapseSpaces(s) ==
    IF s = <<>> THEN <<>>
    ELSE IF IsSpace(s[1])
    THEN <<" ">> \o CollapseSpaces(SubSeq(s, RunEnd(s, 1, Spaces, FALSE) + 1, Len(s)))
    ELSE <<s[1]>> \o CollapseSpaces(Tail(s))

\* server.js 61-64
Cleaned(accomplishment) ==
    Trim(SelectSeq(CollapseSpaces(accomplishment),
                   LAMBDA c : c \in (WordChars \ {"_"}) \/ IsSpace(c)))

\* typeof msg.content === 'string' ? msg.content : ''
StringOrEmpty(v) == IF v.t = "string" THEN v.s ELSE <<>>

Prefix(s, n) == SubSeq(s, 1, IF Len(s) < n THEN Len(s) ELSE n)

\* server.js 51-58: the matches in the order in which the loops meet them,
\* verb by verb, message by message, match by match: <<v, m, k>> is match
\* k of Verbs[v] in msgs[m]
MatchesIn(msgs, v, m) ==
    VerbMatches(ToLower(StringOrEmpty(msgs[m].content)), Verbs[v], 1)

Before(c, d) ==
    \/ c[1] < d[1]
    \/ c[1] = d[1] /\ c[2] < d[2]
    \/ c[1] = d[1] /\ c[2] = d[2] /\ c[3] < d[3]

Candidates(msgs) ==
    LET found == [v \in 1..Len(Verbs) |-> [m \in 1..Len(msgs) |-> MatchesIn(msgs, v, m)]]
        all == UNION { UNION { { <<v, m, k>> : k \in 1..Len(found[v][m]) }
                               : m \in 1..Len(msgs) } : v \in 1..Len(Verbs) }
        at(i) == CHOOSE c \in all : Cardinality({d \in all : Before(d, c)}) = i - 1
    IN  [i \in 1..Cardinality(all) |->
            [capture |-> found[at(i)[1]][at(i)[2]][at(i)[3]], msg |-> msgs[at(i)[2]]]]

\* server.js 58-74: the body of the while loop, match after match
RECURSIVE AddMatches(_, _)
AddMatches(accomplishments, candidates) ==
    IF candidates = <<>> \/ Len(accomplishments) >= 5 THEN accomplishments
    ELSE LET accomplishment == Trim(Head(candidates).capture)
             cleaned == Cleaned(accomplishment)
             keep == /\ Len(accomplishment) > 10
                     /\ Len(accomplishment) < 100
                     /\ cleaned # <<>>
                     /\ ~\E i \in 1..Len(accomplishments) :
                           Includes(accomplishments[i].text, Prefix(cleaned, 20))
         IN  AddMatches(IF keep
                        THEN Append(accomplishments,
                                    [text |-> cleaned,
                                     messageIndex |-> Head(candidates).msg.index])
                        ELSE accomplishments,
                        Tail(candidates))

\* The index that generateChatSummary gives a message (server.js 22-23)
UserIndex(idx) == idx * 2
AssistantIndex(idx) == idx * 2 + 1

\* server.js 21-24: allMessages, sorted by index
AllMessages(userMessages, assistantMessages) ==
    LET users == [i \in 1..Len(userMessages) |->
                    [content |-> userMessages[i], index |-> UserIndex(i - 1),
                     type |-> "user"]]
        assistants == [i \in 1..Len(assistantMessages) |->
                    [content |-> assistantMessages[i], index |-> AssistantIndex(i - 1),
                     type |-> "assistant"]]
        all == users \o assistants
        \* ascending sort: descending sort by the negated index
    IN  SortDesc(all, [m \in Range(all) |-> 0 - m.index])

\* allText (server.js 26)
AllText(msgs) ==
    ToLower(Join([i \in 1..Len(msgs) |->
                    IF msgs[i].content.t = "string" THEN msgs[i].content.s
                    ELSE ObjectToString(msgs[i].content)], <<" ">>))

NameChars == WordChars \cup {"-"}

\* \b before position i
WordBoundary(text, i) ==
    (i <= Len(text) /\ text[i] \in WordChars) # (i > 1 /\ text[i - 1] \in WordChars)

\* A match of \b[\w-]+\.(js|py|...)\b that starts at i: None or the index
\* of its last character. The alternatives are tried in their order.
FileMatchAt(text, i) ==
    IF ~(text[i] \in NameChars /\ WordBoundary(text, i)) THEN None
    ELSE LET e == RunEnd(text, i, NameChars, FALSE)
             fits(k) == LET ext == FileExtensions[k] IN
                        /\ e + 1 + Len(ext) <= Len(text)
                        /\ text[e + 1] = "."
                        /\ SubSeq(text, e + 2, e + 1 + Len(ext)) = ext
                        /\ WordBoundary(text, e + 2 + Len(ext))
             ks == {k \in 1..Len(FileExtensions) : fits(k)}
         IN  IF ks = {} THEN None
             ELSE Some(e + 1 + Len(FileExtensions[MinOf(ks)]))

\* allText.match(...): the successive matches
RECURSIVE FileMatches(_, _)
FileMatches(text, from) ==
    LET starts == {i \in from..Len(text) : FileMatchAt(text, i) # None} IN
    IF starts = {} THEN <<>>
    ELSE LET i == MinOf(starts)
             end == FileMatchAt(text, i)[1]
         IN  <<SubSeq(text, i, end)>> \o FileMatches(text, end + 1)

\* [...new Set(fileMatches)]
RECURSIVE Unique(_)
Unique(s) ==
    IF s = <<>> THEN <<>>
    ELSE LET init == Unique(SubSeq(s, 1, Len(s) - 1))
             x == s[Len(s)]
         IN  IF x \in Range(init) THEN init ELSE Append(init, x)

\* server.js 82-97: the accomplishments of the file mentions
RECURSIVE AddFiles(_, _, _)
AddFiles(accomplishments, files, msgs) ==
    IF files = <<>> THEN accomplishments
    ELSE LET file == Head(files)
             found == {i \in 1..Len(msgs) :
                          Includes(ToLower(StringOrEmpty(msgs[i].content)), file)}
         IN  AddFiles(IF found = {} THEN accomplishments
                      ELSE Append(accomplishments,
                                  [text |-> <<"w","o","r","k","e","d"," ","o","n"," ">> \o file,
                                   messageIndex |-> msgs[MinOf(found)].index]),
                      Tail(files), msgs)

AnchorId(index) == <<"m","s","g","-">> \o Digits(index)

EmptyConversation == [kind |-> "empty", bullets |-> <<>>, count |-> 0, anchors |-> <<>>]

generateChatSummary(userMessages, assistantMessages) ==
    IF Len(userMessages) = 0 THEN EmptyConversation
    ELSE LET allMessages == AllMessages(userMessages, assistantMessages)
             byVerbs == AddMatches(<<>>, Candidates(allMessages))
             fileMatches == FileMatches(AllText(allMessages), 1)
             accomplishments ==
                 IF fileMatches # <<>> /\ Len(byVerbs) < 3
                 THEN AddFiles(byVerbs, Prefix(Unique(fileMatches), 2), allMessages)
                 ELSE byVerbs
             shown == Prefix(accomplishments, 3)
         IN  IF Len(accomplishments) > 0
             THEN [kind |-> "bullets",
                   bullets |-> [i \in 1..Len(shown) |->
                                   [text |-> shown[i].text,
                                    anchorId |-> AnchorId(shown[i].messageIndex)]],
                   count |-> 0,
                   anchors |-> [i \in 1..Len(shown) |->
                                   [id |-> AnchorId(shown[i].messageIndex),
                                    messageIndex |-> shown[i].messageIndex]]]
             ELSE [kind |-> "fallback", bullets |-> <<>>,
                   count |-> Len(userMessages), anchors |-> <<>>]

\* server.js 335-396: the summary of the conversation of one log file
ChatSummary(lines) ==
    LET extracted == ExtractMessages(lines)
    IN  generateChatSummary(MessagesOf(extracted, "user"),
                            MessagesOf(extracted, "assistant"))

\* ------------------------------------------------------------------------
\* State machine of the summary of one conversation
\* ------------------------------------------------------------------------
\* The sample lines and a user message with a phrase of short words
SummarySamples ==
    LineSamples \cup { UserLine(Str(<<"a","d","d","e","d"," ","a",","," ","b",","," ","c",","," ","d","-","e">>)) }

InitSummary ==
    /\ disk = [slot \in Slots |-> None]
    /\ dirOrder = CHOOSE o \in DirOrders : TRUE
    /\ changes = 0
    /\ indexFile = AbsentFile
    /\ last = NoOp("init")
    /\ response = NoResponse
    /\ logLines \in LogsOf(SummarySamples)
    /\ view = NoView
    /\ summaryResult = NoSummary
    /\ page = NoPage
    /\ requests = NoRequests
    /\ exported = NoExport

\* GET / on the log file: server.js 335-396
SummarizeChat ==
    /\ summaryResult' = ChatSummary(logLines)
    /\ UNCHANGED <<logLines, view, page>>
    /\ UNCHANGED indexVars
    /\ UNCHANGED otherVars

NextSummary == SummarizeChat

SpecSummary == InitSummary /\ [][NextSummary]_vars

\* The number of messages of the role among the first p messages
CountRole(extracted, role, p) ==
    Cardinality({q \in 1..p : extracted[q].role = role})

\* The index that generateChatSummary gives the message at position p
\* (from 1) of the conversation
MessageIndexAt(extracted, p) ==
    IF extracted[p].role = "user"
    THEN UserIndex(CountRole(extracted, "user", p) - 1)
    ELSE AssistantIndex(CountRole(extracted, "assistant", p) - 1)

\* The positions of the messages that the anchors of a summary come from
AnchoredPositions(extracted, anchors) ==
    {p \in 1..Len(extracted) :
        \E a \in 1..Len(anchors) :
            anchors[a].messageIndex = MessageIndexAt(extracted, p)}

\* C10: the messageIndex of every anchor of a summary is the sequence index
\* (the position in log-line order, from 0) of the message that holds the
\* phrase; the indices of the anchored messages increase strictly in file
\* order, and none reaches the number of messages of the conversation.
C10_AnchorsMatchSequence ==
    summaryResult.kind = "bullets" =>
        LET extracted == ExtractMessages(logLines)
            anchored == AnchoredPositions(extracted, summaryResult.anchors)
        IN  /\ \A a \in 1..Len(summaryResult.anchors) :
                  /\ summaryResult.anchors[a].messageIndex < Len(extracted)
                  /\ \E p \in anchored :
                        /\ MessageIndexAt(extracted, p) = summaryResult.anchors[a].messageIndex
                        /\ p - 1 = summaryResult.anchors[a].messageIndex
            /\ \A p, q \in anchored :
                  p < q => MessageIndexAt(extracted, p) < MessageIndexAt(extracted, q)

\* The conversation of a user message and an assistant message
LoginConversation ==
    << UserLine(Str(<<"c","r","e","a","t","e","d"," ","a"," ","l","o","g","i","n"," ","p","a","g","e">>)),
       AssistantLine(Str(<<"f","i","x","e","d"," ","t","h","e"," ","a","u","t","h"," ","b","u","g"," ","i","n"," ","a","p","p",".","j","s">>)) >>

\* C21: for the conversation with user message "created a login page" and
\* assistant message "fixed the auth bug in app.js", the bullets of the
\* summary include a text holding "created a login page", linked to the
\* anchor of the user message, and a text holding "fixed the auth bug in
\* appjs", linked to the anchor of the assistant message.
C21_VerbPhraseBullets ==
    (logLines = LoginConversation /\ summaryResult.kind # "none") =>
        /\ summaryResult.kind = "bullets"
        /\ \E b \in Range(summaryResult.bullets) :
              /\ Includes(b.text, <<"c","r","e","a","t","e","d"," ","a"," ","l","o","g","i","n"," ","p","a","g","e">>)
              /\ b.anchorId = AnchorId(0)
        /\ \E b \in Range(summaryResult.bullets) :
              /\ Includes(b.text, <<"f","i","x","e","d"," ","t","h","e"," ","a","u","t","h"," ","b","u","g"," ","i","n"," ","a","p","p","j","s">>)
              /\ b.anchorId = AnchorId(1)

\* C26: every bullet text that comes from a match of an action verb, in its
\* cleaned form (characters other than letters, digits and white space
\* dropped, white space collapsed), has a length greater than 10 and less
\* than 100.
C26_CleanedLengthInRange ==
    summaryResult.kind = "bullets" =>
        \A b \in Range(summaryResult.bullets) :
            ~StartsWith(b.text, <<"w","o","r","k","e","d"," ","o","n"," ">>) =>
                /\ Len(Cleaned(b.text)) > 10
                /\ Len(Cleaned(b.text)) < 100

\* ------------------------------------------------------------------------
\* Client find UI (part_000 262-574): the page
\* ------------------------------------------------------------------------
\* A chat card: data-searchable, data-message-count and its project group
Card(searchable, messageCount, group) ==
    [searchable |-> searchable, messageCount |-> messageCount, group |-> group]

CardSamples ==
    { Card(<<"a","a",".">>, 3, 1),
      Card(<<"a","(","a",".">>, 1, 2),
      Card(<<"\\","a","]","a">>, 5, 2) }

NumCards == 3
Groups == {1, 2}

\* The values of the message-filter select
Filters == {0, 2}

\* The values typed into the find input
Queries ==
    { <<>>, <<"a">>, <<"A">>, <<".">>, <<"(">>, <<"a","(">>, <<".","\\","]">>, <<"\\">> }

NoCount == [kind |-> "none", total |-> 0, chats |-> 0]

\* part_000 557-573
updateProjectVisibility(p) ==
    [p EXCEPT !.groupCount =
        [g \in Groups |->
            Cardinality({i \in 1..Len(p.cards) : p.cards[i].group = g /\ p.display[i]})]]

\* part_000 525-533
restoreOriginalOrder(p) == [p EXCEPT !.order = [i \in 1..Len(p.cards) |-> i]]

\* messageCount > currentMinMessages
PassesFilter(p, i) == p.cards[i].messageCount > p.currentMinMessages

\* part_000 423-437 and 386-400: the cards by the message filter only, the
\* download links without search term
ShowByFilter(p) ==
    [p EXCEPT !.display = [i \in 1..Len(p.cards) |-> PassesFilter(p, i)],
              !.matches = [i \in 1..Len(p.cards) |-> None],
              !.download = [i \in 1..Len(p.cards) |-> None]]

\* The cards of results in the reverse order
sortByMatchesReversed(p, results, matches) ==
    LET reversed == [k \in 1..Len(results) |-> results[Len(results) + 1 - k]]
        sorted == SortDesc(reversed, [i \in Range(results) |-> matches[i]])
        others == SelectSeq(p.order, LAMBDA i : i \notin Range(results))
    IN  [p EXCEPT !.order = others \o sorted]

\* part_000 515-523: results is a sequence of cards, matches their counts;
\* every card of the results is appended to the list again
sortByMatches(p, results, matches) ==
    LET sorted == SortDesc(results, [i \in Range(results) |-> matches[i]])
        others == SelectSeq(p.order, LAMBDA i : i \notin Range(results))
    IN  [p EXCEPT !.order = others \o sorted]

\* part_000 418-502
performFind(page0, searchTerm) ==
    LET p == [page0 EXCEPT !.currentSearchTerm = searchTerm]
        n == Len(p.cards)
    IN
    IF searchTerm = <<>>
    THEN updateProjectVisibility(restoreOriginalOrder(
             [ShowByFilter(p) EXCEPT !.resultsCount = NoCount]))
    ELSE LET searchLower == ToLower(searchTerm)
             counted == [i \in 1..n |->
                            countMatches(ToLower(p.cards[i].searchable), searchLower)]
             passing == {i \in 1..n : PassesFilter(p, i)}
         IN  IF passing # {} /\ counted[MinOf(passing)].threw
             THEN \* the cards before the first one that is matched are
                  \* hidden, then countMatches raises
                  [p EXCEPT !.display = [i \in 1..n |->
                                            IF i < MinOf(passing) THEN FALSE ELSE @[i]],
                            !.matches = [i \in 1..n |->
                                            IF i < MinOf(passing) THEN None ELSE @[i]],
                            !.threw = TRUE]
             ELSE LET hit(i) == i \in passing /\ counted[i].count > 0
                      matches == [i \in 1..n |-> counted[i].count]
                      results == SelectSeq([i \in 1..n |-> i], hit)
                      totalMatches == IF results = <<>> THEN 0
                                      ELSE LET RECURSIVE Sum(_)
                                               Sum(k) == IF k = 0 THEN 0
                                                         ELSE matches[results[k]] + Sum(k - 1)
                                           IN  Sum(Len(results))
                      shown ==
                          [p EXCEPT !.display = [i \in 1..n |-> hit(i)],
                                    !.matches = [i \in 1..n |->
                                                    IF hit(i) THEN Some(matches[i]) ELSE None],
                                    !.download = [i \in 1..n |->
                                                    IF hit(i)
                                                    THEN Some(encodeURIComponent(searchTerm))
                                                    ELSE @[i]],
                                    !.resultsCount =
                                        IF Len(results) > 0
                                        THEN [kind |-> "matches", total |-> totalMatches,
                                              chats |-> Len(results)]
                                        ELSE [kind |-> "nomatch", total |-> 0, chats |-> 0]]
                  IN  updateProjectVisibility(sortByMatches(shown, results, matches))

\* part_000 536-554
applyFilters(p) ==
    IF p.isInFindMode /\ p.currentSearchTerm # <<>>
    THEN performFind(p, p.currentSearchTerm)
    ELSE updateProjectVisibility(
             [p EXCEPT !.display = [i \in 1..Len(p.cards) |-> PassesFilter(p, i)],
                       !.matches = [i \in 1..Len(p.cards) |-> None]])

\* part_000 368-374
enterFindMode(p) == [p EXCEPT !.isInFindMode = TRUE]

\* exitFindMode that leaves the text of the find input in place
exitFindModeKeepsInput(p) ==
    updateProjectVisibility(restoreOriginalOrder(ShowByFilter(
        [p EXCEPT !.isInFindMode = FALSE,
                  !.resultsCount = NoCount,
                  !.currentSearchTerm = <<>>])))

\* part_000 376-405
exitFindMode(p) ==
    updateProjectVisibility(restoreOriginalOrder(ShowByFilter(
        [p EXCEPT !.isInFindMode = FALSE,
                  !.inputValue = <<>>,
                  !.resultsCount = NoCount,
                  !.currentSearchTerm = <<>>])))

\* part_000 360-366
toggleFindMode(p) == IF p.isInFindMode THEN exitFindMode(p) ELSE enterFindMode(p)

\* The page when the DOMContentLoaded handler has run (part_000 262-358):
\* the filter of the cookie, or 0, is applied
LoadedPage(cards, savedFilter) ==
    applyFilters(
        [loaded |-> TRUE,
         cards |-> cards,
         order |-> [i \in 1..Len(cards) |-> i],
         display |-> [i \in 1..Len(cards) |-> TRUE],
         matches |-> [i \in 1..Len(cards) |-> None],
         download |-> [i \in 1..Len(cards) |-> None],
         groupCount |-> [g \in Groups |-> 0],
         isInFindMode |-> FALSE,
         currentSearchTerm |-> <<>>,
         currentMinMessages |-> savedFilter,
         resultsCount |-> NoCount,
         inputValue |-> <<>>,
         timer |-> FALSE,
         event |-> "load",
         threw |-> FALSE])

\* An event handler starts: event names it, threw tells whether it raised
Handling(p, event) == [p EXCEPT !.event = event, !.threw = FALSE]

InitFind ==
    /\ disk = [slot \in Slots |-> None]
    /\ dirOrder = CHOOSE o \in DirOrders : TRUE
    /\ changes = 0
    /\ indexFile = AbsentFile
    /\ last = NoOp("init")
    /\ response = NoResponse
    /\ logLines = <<>>
    /\ view = NoView
    /\ summaryResult = NoSummary
    /\ requests = NoRequests
    /\ exported = NoExport
    /\ \E cards \in [1..NumCards -> CardSamples], savedFilter \in Filters :
          page = LoadedPage(cards, savedFilter)

FindUnchanged == UNCHANGED <<indexVars, logLines, view, summaryResult, otherVars>>

\* click on the find link (part_000 328-333)
ToggleFind ==
    /\ page' = toggleFindMode(Handling(page, "toggle"))
    /\ FindUnchanged

\* input event of the find input, shown in find mode only (part_000
\* 337-342): the debounce timer is set again
TypeInput(value) ==
    /\ page.isInFindMode
    /\ value # page.inputValue
    /\ page' = [Handling(page, "input") EXCEPT !.inputValue = value, !.timer = TRUE]
    /\ FindUnchanged

\* the debounce timer fires (part_000 339-341); the values of the model
\* have no white space to trim
TimerFires ==
    /\ page.timer
    /\ page' = performFind([Handling(page, "find") EXCEPT !.timer = FALSE],
                           page.inputValue)
    /\ FindUnchanged

\* Escape in the find input (part_000 344-348)
EscapeKey ==
    /\ page.isInFindMode
    /\ page' = exitFindMode(Handling(page, "escape"))
    /\ FindUnchanged

\* change event of the message filter (part_000 353-357)
FilterChange(value) ==
    /\ page' = applyFilters([Handling(page, "filter") EXCEPT !.currentMinMessages = value])
    /\ FindUnchanged

NextFind ==
    \/ ToggleFind
    \/ \E value \in Queries : TypeInput(value)
    \/ TimerFires
    \/ EscapeKey
    \/ \E value \in Filters : FilterChange(value)

SpecFind == InitFind /\ [][NextFind]_vars

\* A search is shown: the last handler ran performFind with a query
SearchRan ==
    /\ page.loaded
    /\ page.event \in {"find", "filter"}
    /\ page.isInFindMode
    /\ page.currentSearchTerm # <<>>

\* The number shown in the match-count line of a card, 0 without one
ShownCount(i) == IF page.matches[i] = None THEN 0 ELSE page.matches[i][1]

\* The number of non-overlapping occurrences of a literal string
LiteralCount(text, query) ==
    MatchCountFrom(text, [k \in 1..Len(query) |-> Literal(query[k])], 1)

\* C11: after a search with a non-empty query, no error was raised and the
\* match count of every conversation above the message filter is the
\* number of non-overlapping case-insensitive occurrences of the query as
\* a literal substring of its searchable text.
C11_LiteralMatchCount ==
    SearchRan =>
        /\ ~page.threw
        /\ \A i \in 1..Len(page.cards) :
              PassesFilter(page, i) =>
                  ShownCount(i) = LiteralCount(ToLower(page.cards[i].searchable),
                                               ToLower(page.currentSearchTerm))

\* The cards with a match count, in the order of the list
RankedResults == SelectSeq(page.order, LAMBDA i : page.matches[i] # None)

\* C12: the ranked results are in descending order of match count, and
\* conversations with equal counts are in their original order, whatever
\* was searched before.
C12_RankedByMatches ==
    page.loaded =>
        \A a, b \in 1..Len(RankedResults) :
            a < b =>
                \/ ShownCount(RankedResults[a]) > ShownCount(RankedResults[b])
                \/ /\ ShownCount(RankedResults[a]) = ShownCount(RankedResults[b])
                   /\ RankedResults[a] < RankedResults[b]

\* C12 witness: a search moved a card with fewer matches behind two later
\* cards with equal counts
C12_Witness ==
    /\ SearchRan
    /\ ~page.threw
    /\ Len(RankedResults) = 3
    /\ RankedResults[1] > RankedResults[3]
    /\ ShownCount(RankedResults[1]) = ShownCount(RankedResults[2])
    /\ RankedResults[1] # RankedResults[2]

\* The count of countMatches for a card and the current query, 0 when it
\* raises
CountedMatches(i) ==
    countMatches(ToLower(page.cards[i].searchable), ToLower(page.currentSearchTerm)).count

RECURSIVE SumShown(_)
SumShown(n) == IF n = 0 THEN 0 ELSE ShownCount(n) + SumShown(n - 1)

\* C13: after a search with a non-empty query, a conversation is visible
\* if and only if its messageCount is above the message filter and its
\* match count is positive; the total counts the visible conversations
\* only.
C13_VisibleIffFilteredAndMatched ==
    SearchRan =>
        /\ \A i \in 1..Len(page.cards) :
              page.display[i] <=> (PassesFilter(page, i) /\ CountedMatches(i) > 0)
        /\ \A i \in 1..Len(page.cards) :
              ~PassesFilter(page, i) => page.matches[i] = None
        /\ page.resultsCount.kind = "matches" =>
              /\ page.resultsCount.total = SumShown(Len(page.cards))
              /\ page.resultsCount.chats =
                     Cardinality({i \in 1..Len(page.cards) : page.display[i]})

\* C29: whenever find mode is off, the current search term is empty, no
\* card shows a match count, the visible cards are exactly those with
\* messageCount above the active filter, and the cards are in their original
\* order, also when the debounce timer was pending when find mode was left
\* and fires afterwards.
C29_FindOffIsClean ==
    (page.loaded /\ ~page.isInFindMode) =>
        /\ page.currentSearchTerm = <<>>
        /\ \A i \in 1..Len(page.cards) : page.matches[i] = None
        /\ \A i \in 1..Len(page.cards) : page.display[i] <=> PassesFilter(page, i)
        /\ page.order = [i \in 1..Len(page.cards) |-> i]
        /\ page.resultsCount = NoCount

\* C29 witness: the debounce timer has fired with find mode off, the
\* message filter hides one card and shows another
C29_Witness ==
    /\ page.loaded
    /\ ~page.isInFindMode
    /\ page.event = "find"
    /\ ~page.timer
    /\ \E i, j \in 1..Len(page.cards) : page.display[i] /\ ~page.display[j]

\* ------------------------------------------------------------------------
\* GET /download/:project/:id : the markdown export (server.js 718-797)
\* ------------------------------------------------------------------------
\* `${v}` of a content value
TemplateString(v) ==
    IF v.t = "string" THEN v.s
    ELSE IF v.t = "undefined" THEN <<"u","n","d","e","f","i","n","e","d">>
    ELSE ObjectToString(v)

\* server.js 729: text.replace(regex, '**$1**') from position from on
RECURSIVE BoldFrom(_, _, _)
BoldFrom(text, tokens, from) ==
    LET starts == {i \in from..Len(text) : MatchesAt(text, tokens, i)} IN
    IF starts = {} THEN SubSeq(text, from, Len(text))
    ELSE LET i == MinOf(starts) IN
         SubSeq(text, from, i - 1)
            \o <<"*","*">> \o SubSeq(text, i, i + Len(tokens) - 1) \o <<"*","*">>
            \o BoldFrom(text, tokens, i + Len(tokens))

\* server.js 726-730 inside a template literal: the text that
\* `${highlightSearchTermMarkdown(text, searchTerm)}` yields; text.replace
\* is not a function when text is an array or an object
highlightSearchTermMarkdown(text, searchTerm) ==
    IF searchTerm = None \/ ~TruthyVal(text) THEN Ok(TemplateString(text))
    ELSE IF text.t # "string" THEN Throws
    ELSE Ok(BoldFrom(text.s, RegExp(EscapeRegExp(searchTerm[1])).tokens, 1))

\* What a step of the export appends to markdown, and whether it threw
Appended(text) == [text |-> text, threw |-> FALSE]
AppendedThenThrew(text) == [text |-> text, threw |-> TRUE]

\* server.js 768-776: one content block
ExportBlock(item, searchTerm) ==
    IF item.type = "null" THEN AppendedThenThrew(<<>>)        \* item.type
    ELSE IF item.type = "text"
    THEN LET text == highlightSearchTermMarkdown(Str(item.text), searchTerm) IN
         IF text.ok THEN Appended(text.text \o <<"\n","\n">>) ELSE AppendedThenThrew(<<>>)
    ELSE IF item.type = "tool_use"
    THEN LET call == <<"*","*","T","o","o","l"," ","C","a","l","l",":"," ">> \o item.name \o <<"*","*","\n","\n">> IN
         IF item.input = None THEN Appended(call)
         ELSE Appended(call \o <<BQ,BQ,BQ>> \o <<"j","s","o","n","\n">>
                  \o highlightSearchTermMarkdown(Str(item.input[1].pretty), searchTerm).text
                  \o <<"\n">> \o <<BQ,BQ,BQ>> \o <<"\n","\n">>)
    ELSE Appended(<<>>)

\* server.js 767-777: msg.content.forEach, left at the first exception
RECURSIVE ExportBlocks(_, _)
ExportBlocks(items, searchTerm) ==
    IF items = <<>> THEN Appended(<<>>)
    ELSE LET first == ExportBlock(Head(items), searchTerm) IN
         IF first.threw THEN first
         ELSE LET rest == ExportBlocks(Tail(items), searchTerm) IN
              [text |-> first.text \o rest.text, threw |-> rest.threw]

\* server.js 751, 756, 764: toLocaleString of the timestamp, in italics
ExportTimestamp(timestamp) ==
    IF timestamp = None THEN <<>>
    ELSE <<"*","t">> \o Digits(timestamp[1]) \o <<"*","\n","\n">>

\* server.js 746-785: what one line appends to markdown. The catch at 783
\* ends the line; what was appended before the exception stays.
ExportLine(line, searchTerm) ==
    IF line.json \in {"invalid", "null"} THEN AppendedThenThrew(<<>>)
    ELSE IF line.json = "scalar" \/ line.message = None THEN Appended(<<>>)
    ELSE IF line.type = "user" /\ line.message[1].role = "user"
    THEN LET heading == <<"#","#"," ","Y","o","u","\n">> \o ExportTimestamp(line.timestamp)
             content == line.message[1].content
             userContent == IF TruthyVal(content) THEN content ELSE Str(<<>>)
             text == highlightSearchTermMarkdown(userContent, searchTerm)
         IN  IF text.ok THEN Appended(heading \o text.text \o <<"\n","\n">>)
             ELSE AppendedThenThrew(heading)
    ELSE IF line.type = "assistant" /\ line.message[1].role = "assistant"
    THEN LET heading == <<"#","#"," ","C","l","a","u","d","e","\n">> \o ExportTimestamp(line.timestamp)
             content == line.message[1].content
             body == IF content.t = "array" THEN ExportBlocks(content.items, searchTerm)
                     ELSE IF content.t = "string"
                     THEN Appended(highlightSearchTermMarkdown(content, searchTerm).text
                                      \o <<"\n","\n">>)
                     ELSE Appended(<<>>)
         IN  [text |-> heading \o body.text, threw |-> body.threw]
    ELSE Appended(<<>>)

\* server.js 737-743
ExportHeader(searchTerm) ==
    <<"#"," ","C","l","a","u","d","e"," ","C","h","a","t"," ","H","i","s","t","o","r","y","\n","\n","*","*","C","h","a","t"," ","I","D",":","*","*"," ","c","\n","*","*","E","x","p","o","r","t","e","d",":","*","*"," ","n","o","w","\n">>
        \o (IF searchTerm # None
            THEN <<"*","*","S","e","a","r","c","h"," ","T","e","r","m",":","*","*"," ","\"">> \o searchTerm[1] \o <<"\"","\n">>
            ELSE <<>>)
        \o <<"\n","-","-","-","\n","\n">>

RECURSIVE ExportLines(_, _)
ExportLines(lines, searchTerm) ==
    IF lines = <<>> THEN <<>>
    ELSE ExportLine(Head(lines), searchTerm).text \o ExportLines(Tail(lines), searchTerm)

\* server.js 718-797: the response; the readFile of a missing file is
\* caught at 793
ExportResponse(missing, lines, searchTerm) ==
    IF missing
    THEN [status |-> 404, markdown |-> <<"C","h","a","t"," ","n","o","t"," ","f","o","u","n","d">>, searchTerm |-> searchTerm]
    ELSE [status |-> 200,
          markdown |-> ExportHeader(searchTerm) \o ExportLines(lines, searchTerm),
          searchTerm |-> searchTerm]

\* ------------------------------------------------------------------------
\* State machine of the export
\* ------------------------------------------------------------------------
InitExport ==
    /\ disk = [slot \in Slots |-> None]
    /\ dirOrder = CHOOSE o \in DirOrders : TRUE
    /\ changes = 0
    /\ indexFile = AbsentFile
    /\ last = NoOp("init")
    /\ response = NoResponse
    /\ logLines \in LogsOf(LineSamples)
    /\ view = NoView
    /\ summaryResult = NoSummary
    /\ page = NoPage
    /\ requests = NoRequests
    /\ exported = NoExport

\* GET /download/:project/:id?search=searchTerm
DownloadChat ==
    /\ \E searchTerm \in SearchTerms, missing \in BOOLEAN :
          exported' = ExportResponse(missing, logLines, searchTerm)
    /\ UNCHANGED <<logLines, view, summaryResult, page, requests>>
    /\ UNCHANGED indexVars

NextExport == DownloadChat

SpecExport == InitExport /\ [][NextExport]_vars

\* The sections of the lines that the export went through without an
\* exception
RECURSIVE CompleteSections(_, _)
CompleteSections(lines, searchTerm) ==
    IF lines = <<>> THEN <<>>
    ELSE (IF ExportLine(Head(lines), searchTerm).threw THEN <<>>
          ELSE ExportLine(Head(lines), searchTerm).text)
            \o CompleteSections(Tail(lines), searchTerm)

\* C19: a log line that fails part-way through the export is dropped whole:
\* the export document is the header followed by the complete sections of
\* the lines that did not fail, in line order, with or without a search
\* term.
C19_FailedLineDroppedWhole ==
    exported.status = 200 =>
        exported.markdown =
            ExportHeader(exported.searchTerm)
                \o CompleteSections(logLines, exported.searchTerm)

\* ------------------------------------------------------------------------
\* Tool-result and system records in the listing and in the detail view
\* ------------------------------------------------------------------------
\* The content that a tool_result or system record carries: its content
\* field, else the content of its embedded message (server.js 384-388)
RecordContent(line) ==
    IF TruthyVal(line.content) THEN line.content
    ELSE IF line.message # None THEN line.message[1].content
    ELSE Undefined

CarriesContent(line) ==
    /\ line.json = "object"
    /\ line.type \in {"tool_result", "system"}
    /\ TruthyVal(RecordContent(line))

\* C20: a record of type tool_result or system that carries content, in its
\* content field or in an embedded message, yields a message whose content
\* is that content, stringified when it is not a string, in the listing
\* and in the detail view alike.
C20_ToolRecordsNormalized ==
    view.status = 200 =>
        \A i \in 1..Len(logLines) :
            CarriesContent(logLines[i]) =>
                /\ \E e \in Range(ExtractLine(logLines[i], i)) :
                      e.content = Str(Trim(Stringified(RecordContent(logLines[i]))))
                /\ NormalizeLine(logLines[i]).t = "message"
                /\ \E j \in 1..Len(view.originalMessages) :
                      /\ j = Cardinality({k \in 1..i : NormalizeLine(logLines[k]).t = "message"})
                      /\ Trim(view.originalMessages[j].content) =
                             Trim(Stringified(RecordContent(logLines[i])))

====
